---- MODULE Spec2Model ----
(***************************************************************************)
(* Batch operation engine of service/worker/batcher/workflow.go:           *)
(* BatchWorkflow (parameter defaults, validation, activity scheduling) and *)
(* BatchActivity (the scan / dispatch / heartbeat loop) with its task      *)
(* processors (startTaskProcessor, processTask).                           *)
(*                                                                         *)
(* One dispatcher and params.Concurrency task processors run interleaved;  *)
(* each action is one step between two blocking points of a goroutine.     *)
(* The remote services (visibility scan/count, terminate/cancel/signal/    *)
(* describe), the activity host (heartbeat store, cancellation, retry of   *)
(* the activity) are the environment: their answers are nondeterministic.  *)
(***************************************************************************)
EXTENDS Integers, Sequences, FiniteSets, TLC

(***************************************************************************)
(* Program constants (workflow.go:41-67).                                   *)
(***************************************************************************)
defaultRPS == 50
defaultRPSPerConcurrency == 10
defaultAttemptsOnRetryableError == 50
defaultActivityHeartBeatTimeout == 60

BatchTypeTerminate == 0
BatchTypeCancel == 1
BatchTypeSignal == 2

(***************************************************************************)
(* Bounds of the model.                                                    *)
(***************************************************************************)
\* page size of the scan and capacity of taskCh and respCh (workflow.go:48
\* sets 1000; the pages of ScanWorkflow below hold at most this many)
pageSize == 2
\* task processors the engine specification may start
MaxWorkers == 2
\* RPC answers other than plain success the environment may give
MaxFaults == 2
\* invocations of BatchActivity by the activity host (first run + retries)
MaxInvocations == 2

(***************************************************************************)
(* Values.  A *bool is "nil", "true" or "false".  An error is NoErr (nil), *)
(* EntityNotExists, the context error, or an error with a message.         *)
(***************************************************************************)
NilBool == "nil"
BoolPtr(b) == IF b THEN "true" ELSE "false"

NoErr == "nil"
EntityNotExistsError == "EntityNotExistsError"
CtxErr == "context canceled"
ErrTransient == "transient"
ErrForbidden == "forbidden"
ErrMessages == {ErrTransient, ErrForbidden}

\* HeartBeatDetails{} : the zero value
ZeroHBD ==
    [PageToken |-> "", CurrentPage |-> 0, TotalEstimate |-> 0,
     SuccessCount |-> 0, ErrorCount |-> 0]

\* the heartbeat details the activity host holds: none, or the last recorded
NoDetails == <<>>
Details(h) == <<h>>
HasHeartbeatDetails(d) == Len(d) > 0

(***************************************************************************)
(* The environment's world: the visibility index answers scan by page      *)
(* token; describe answers the pending children of an execution.           *)
(***************************************************************************)
Roots == {"w1", "w2", "w3"}
TreeRoot == "t1"
ChildExecutions == {"c1", "c2", "c3"}
Executions == Roots \cup {TreeRoot} \cup ChildExecutions

\* the query no execution matches, and the query that matches TreeRoot
\* alone; every other query matches all of Roots
EmptyQuery == "none"
TreeQuery == "tree"
Matching(query) ==
    CASE query = EmptyQuery -> {}
      [] query = TreeQuery  -> {TreeRoot}
      [] OTHER              -> Roots

\* ScanWorkflow(PageSize, NextPageToken, Query) -> (Executions, NextPageToken)
ScanWorkflow(token, query) ==
    CASE Matching(query) = {} -> [Executions |-> <<>>, NextPageToken |-> ""]
      [] query = TreeQuery /\ token = ""
                      -> [Executions |-> <<TreeRoot>>,   NextPageToken |-> ""]
      [] query # TreeQuery /\ token = ""
                      -> [Executions |-> <<"w1", "w2">>, NextPageToken |-> "T1"]
      [] query # TreeQuery /\ token = "T1"
                      -> [Executions |-> <<"w3">>,       NextPageToken |-> ""]
      [] OTHER        -> [Executions |-> <<>>,           NextPageToken |-> ""]

\* CountWorkflow(Query)
CountWorkflow(query) == Cardinality(Matching(query))

\* DescribeWorkflowExecution(...).PendingChildren
PendingChildren(wf) ==
    CASE wf = "w1"     -> <<"c1">>
      [] wf = "c1"     -> <<"c2">>
      [] wf = TreeRoot -> <<"c1", "c3">>
      [] OTHER         -> <<>>

(***************************************************************************)
(* BatchParams as the caller of BatchWorkflow may give them.               *)
(***************************************************************************)
Strings == {"", "x"}

AllRequests ==
    [DomainName : Strings, Query : Strings, Reason : Strings,
     BatchType : {BatchTypeTerminate, BatchTypeCancel, BatchTypeSignal, 3},
     TerminateChildren : {NilBool, "true", "false"},
     CancelChildren : {NilBool, "true", "false"},
     SignalName : Strings,
     RPS : {0, 5, 10, 25},
     Concurrency : {0, 1, 2},
     AttemptsOnRetryableError : {0, 1, 2},
     ActivityHeartBeatTimeout : {0, 30},
     NonRetryableErrors : {{}, {ErrForbidden}},
     nonRetryableErrors : {{}}]

\* setDefaultParams
setDefaultParams(p) ==
    LET rps == IF p.RPS <= 0 THEN defaultRPS ELSE p.RPS
        conc == IF p.Concurrency <= 0
                THEN rps \div defaultRPSPerConcurrency
                ELSE p.Concurrency
        att == IF p.AttemptsOnRetryableError <= 0
               THEN defaultAttemptsOnRetryableError
               ELSE p.AttemptsOnRetryableError
        hbt == IF p.ActivityHeartBeatTimeout <= 0
               THEN defaultActivityHeartBeatTimeout
               ELSE p.ActivityHeartBeatTimeout
        nre == IF Cardinality(p.NonRetryableErrors) > 0
               THEN p.NonRetryableErrors
               ELSE p.nonRetryableErrors
        tch == IF p.TerminateChildren = NilBool
               THEN BoolPtr(TRUE)
               ELSE p.TerminateChildren
    IN [p EXCEPT !.RPS = rps, !.Concurrency = conc,
                 !.AttemptsOnRetryableError = att,
                 !.ActivityHeartBeatTimeout = hbt,
                 !.nonRetryableErrors = nre,
                 !.TerminateChildren = tch]

\* validateParams with the Signal case falling through to return nil
validateParams_SignalNameUnchecked(p) ==
    IF p.Reason = "" \/ p.DomainName = "" \/ p.Query = ""
    THEN "must provide required parameters: BatchType/Reason/DomainName/Query"
    ELSE CASE p.BatchType = BatchTypeSignal -> NoErr
           [] p.BatchType = BatchTypeCancel -> NoErr
           [] p.BatchType = BatchTypeTerminate -> NoErr
           [] OTHER -> "not supported batch type"

\* validateParams: the error it returns, NoErr for nil
validateParams(p) ==
    IF p.Reason = "" \/ p.DomainName = "" \/ p.Query = ""
    THEN "must provide required parameters: BatchType/Reason/DomainName/Query"
    ELSE CASE p.BatchType = BatchTypeSignal ->
                IF p.SignalName = "" THEN "must provide signal name" ELSE NoErr
           [] p.BatchType = BatchTypeCancel -> NoErr
           [] p.BatchType = BatchTypeTerminate -> NoErr
           [] OTHER -> "not supported batch type"

\* ExecuteActivity hands batchParams to the activity through the data
\* converter, which encodes the exported fields only: the unexported
\* _nonRetryableErrors map (field nonRetryableErrors here) arrives as nil.
DataConverter(p) == [p EXCEPT !.nonRetryableErrors = {}]

(***************************************************************************)
(* State.                                                                  *)
(***************************************************************************)
Workers == 1..MaxWorkers

VARIABLES
    req,         \* BatchParams given to BatchWorkflow
    params,      \* batchParams as BatchActivity receives them
    wfpc,        \* BatchWorkflow: "start", "rejected", "activity"
    wfErr,       \* error BatchWorkflow returned on rejection
    invocation,  \* number of the current invocation of BatchActivity
    lastHb,      \* activity host: last recorded heartbeat details
    cancelled,   \* ctx.Done() of the current invocation is closed
    dpc,         \* BatchActivity: position of the dispatcher
    hbd,         \* BatchActivity: hbd
    startOver,   \* BatchActivity: startOver
    resp,        \* BatchActivity: resp of the last ScanWorkflow
    sendIdx,     \* BatchActivity: index of the next execution to send
    succCount,   \* BatchActivity: succCount
    errCount,    \* BatchActivity: errCount
    result,      \* HeartBeatDetails BatchActivity returned
    retErr,      \* error BatchActivity returned
    taskCh,      \* chan taskDetail, capacity pageSize
    respCh,      \* chan error, capacity pageSize
    wpc,         \* startTaskProcessor: position of each goroutine
    task,        \* startTaskProcessor: task
    wfs,         \* processTask: wfs
    wf,          \* processTask: wf
    werr,        \* startTaskProcessor: err
    faults,      \* environment: failing answers given so far
    \* history of the current invocation, kept for the properties
    countCalls,  \* CountWorkflow calls
    scanTokens,  \* NextPageToken of every ScanWorkflow call, in order
    restored,    \* heartbeat details decoded at entry, or NoDetails
    mutations,   \* mutation RPCs issued, per execution
    walkMutated, \* executions the current processTask call mutated, in order
    walkDescribed, \* executions it got the pending children of, in order
    walkGone,    \* its calls that answered EntityNotExistsError, in order
    drainedNow,  \* executions of the pages this invocation drained and
                 \* advanced past
    drained,     \* the same, of the earlier invocations
    abortedIn,   \* context errors among the outcomes counted for the page
    reportedOk,  \* nil outcomes the task processors sent on respCh
    reportedErr, \* error outcomes the task processors sent on respCh
    acquired     \* tokens limiter.Wait has granted

dispVars == <<dpc, hbd, startOver, resp, sendIdx, succCount, errCount, result, retErr>>
workVars == <<wpc, task, wfs, wf, werr>>
histVars == <<countCalls, scanTokens, restored, mutations, walkMutated,
              walkDescribed, walkGone, drainedNow, drained,
              abortedIn, reportedOk, reportedErr, acquired>>
vars == <<req, params, wfpc, wfErr, invocation, lastHb, cancelled, dispVars,
          taskCh, respCh, workVars, faults, histVars>>

NoTask == [execution |-> "", attempts |-> 0, hbd |-> ZeroHBD]
NoResp == [Executions |-> <<>>, NextPageToken |-> ""]

Running == {"entry", "scan", "send", "wait", "advance", "return"}

InitWith(requests) ==
    /\ req \in requests
    /\ params = req
    /\ wfpc = "start"
    /\ wfErr = NoErr
    /\ invocation = 0
    /\ lastHb = NoDetails
    /\ cancelled = FALSE
    /\ dpc = "none"
    /\ hbd = ZeroHBD
    /\ startOver = TRUE
    /\ resp = NoResp
    /\ sendIdx = 0
    /\ succCount = 0
    /\ errCount = 0
    /\ result = ZeroHBD
    /\ retErr = NoErr
    /\ taskCh = <<>>
    /\ respCh = <<>>
    /\ wpc = [w \in Workers |-> "none"]
    /\ task = [w \in Workers |-> NoTask]
    /\ wfs = [w \in Workers |-> <<>>]
    /\ wf = [w \in Workers |-> ""]
    /\ werr = [w \in Workers |-> NoErr]
    /\ faults = 0
    /\ countCalls = 0
    /\ scanTokens = <<>>
    /\ restored = NoDetails
    /\ mutations = [e \in Executions |-> 0]
    /\ walkMutated = [w \in Workers |-> <<>>]
    /\ walkDescribed = [w \in Workers |-> <<>>]
    /\ walkGone = [w \in Workers |-> <<>>]
    /\ drainedNow = {}
    /\ drained = {}
    /\ abortedIn = 0
    /\ reportedOk = 0
    /\ reportedErr = 0
    /\ acquired = 0

(***************************************************************************)
(* BatchWorkflow (workflow.go:166-177).                                    *)
(***************************************************************************)
BatchWorkflow ==
    /\ wfpc = "start"
    /\ LET batchParams == setDefaultParams(req)
           err == validateParams(batchParams)
       IN IF err # NoErr
          THEN /\ wfpc' = "rejected"
               /\ wfErr' = err
               /\ UNCHANGED <<params, dpc, invocation>>
          ELSE /\ wfpc' = "activity"
               /\ params' = DataConverter(batchParams)
               /\ dpc' = "entry"
               /\ invocation' = 1
               /\ UNCHANGED wfErr
    /\ UNCHANGED <<req, lastHb, cancelled, hbd, startOver, resp, sendIdx,
                   succCount, errCount, result, retErr, taskCh, respCh,
                   workVars, faults, histVars>>

(***************************************************************************)
(* BatchActivity (workflow.go:226-316): the dispatcher.                    *)
(***************************************************************************)
\* the locals of BatchActivity once it has returned
FrameGone ==
    /\ hbd' = ZeroHBD
    /\ startOver' = TRUE
    /\ resp' = NoResp
    /\ sendIdx' = 0
    /\ succCount' = 0
    /\ errCount' = 0

\* the tallies of the outcomes, once the invocation has failed
TalliesGone ==
    /\ reportedOk' = 0
    /\ reportedErr' = 0

\* ReturnErr returning the progress made instead of the empty state
ReturnErr_KeepsProgress(err) ==
    /\ dpc' = "done"
    /\ result' = hbd
    /\ retErr' = err

\* return HeartBeatDetails{}, err
ReturnErr(err) ==
    /\ dpc' = "done"
    /\ result' = ZeroHBD
    /\ retErr' = err

\* the failing answers a remote call may give: an error of the service while
\* the fault budget lasts, the context error once ctx is cancelled
CallErrors ==
    (IF faults < MaxFaults THEN {ErrTransient} ELSE {})
        \cup (IF cancelled THEN {CtxErr} ELSE {})

\* what an answer takes from the fault budget
FaultOf(err) == IF err \in {NoErr, CtxErr} THEN 0 ELSE 1

\* activity.GetHeartbeatDetails(ctx, &hbd) == nil, when details exist
RestoreOutcomes ==
    IF ~HasHeartbeatDetails(lastHb) THEN {FALSE}
    ELSE {TRUE} \cup (IF faults < MaxFaults THEN {FALSE} ELSE {})

\* RestoredHBD resuming at the restored page, but with the cursor cleared
RestoredHBD_FromStart(ok) ==
    IF ok THEN [lastHb[1] EXCEPT !.PageToken = ""] ELSE ZeroHBD

\* RestoredHBD with hbd left as the failed decoding filled it
RestoredHBD_KeepsPartial(ok) ==
    IF HasHeartbeatDetails(lastHb) THEN lastHb[1] ELSE ZeroHBD

\* RestoredHBD resuming with the cursor but with the counts at zero
RestoredHBD_CountsReset(ok) ==
    IF ok THEN [lastHb[1] EXCEPT !.SuccessCount = 0, !.ErrorCount = 0]
    ELSE ZeroHBD

\* lines 230-240: hbd after the attempt to restore it; ok is whether details
\* exist and GetHeartbeatDetails decoded them into hbd
RestoredHBD(ok) == IF ok THEN lastHb[1] ELSE ZeroHBD

\* StartTaskProcessors with the loop running to i <= Concurrency
StartTaskProcessors_OneMore ==
    wpc' = [w \in Workers |->
              IF w <= params.Concurrency + 1 THEN "idle" ELSE "none"]

\* lines 254-256: go startTaskProcessor(...), batchParams.Concurrency times
StartTaskProcessors ==
    wpc' = [w \in Workers |-> IF w <= params.Concurrency THEN "idle" ELSE "none"]

\* lines 230-256: restore the heartbeat details, count on a fresh start,
\* create the limiter and the channels, start the task processors
BatchActivityEntry ==
    /\ dpc = "entry"
    /\ \E ok \in RestoreOutcomes, cerr \in {NoErr} \cup CallErrors :
         LET restoreFault == IF HasHeartbeatDetails(lastHb) /\ ~ok THEN 1 ELSE 0
             hbd0 == RestoredHBD(ok)
         IN /\ restored' = IF ok THEN lastHb ELSE NoDetails
            /\ IF ~ok
               THEN /\ countCalls' = countCalls + 1
                    /\ faults' = faults + restoreFault + FaultOf(cerr)
                    /\ faults' <= MaxFaults
                    /\ IF cerr # NoErr
                       THEN /\ ReturnErr(cerr)
                            /\ hbd' = ZeroHBD
                            /\ startOver' = TRUE
                            /\ UNCHANGED wpc
                       ELSE /\ hbd' = [hbd0 EXCEPT !.TotalEstimate = CountWorkflow(params.Query)]
                            /\ startOver' = TRUE
                            /\ StartTaskProcessors
                            /\ dpc' = "scan"
                            /\ UNCHANGED <<result, retErr>>
               ELSE /\ cerr = NoErr
                    /\ hbd' = hbd0
                    /\ startOver' = FALSE
                    /\ StartTaskProcessors
                    /\ dpc' = "scan"
                    /\ UNCHANGED <<countCalls, faults, result, retErr>>
    /\ taskCh' = <<>>
    /\ respCh' = <<>>
    /\ UNCHANGED <<req, params, wfpc, wfErr, invocation, lastHb, cancelled,
                   resp, sendIdx, succCount, errCount, task, wfs, wf, werr,
                   scanTokens, mutations, walkMutated, walkDescribed, walkGone,
                   drainedNow, drained, abortedIn,
                   reportedOk, reportedErr, acquired>>

\* lines 262-273: one ScanWorkflow call
Scan ==
    /\ dpc = "scan"
    /\ scanTokens' = Append(scanTokens, hbd.PageToken)
    /\ \E err \in {NoErr} \cup CallErrors :
         /\ faults' = faults + FaultOf(err)
         /\ IF err # NoErr
            THEN /\ ReturnErr(err)
                 /\ FrameGone
                 /\ TalliesGone
            ELSE /\ resp' = ScanWorkflow(hbd.PageToken, params.Query)
                 /\ IF Len(resp'.Executions) <= 0
                    THEN dpc' = "return"
                    ELSE dpc' = "send"
                 /\ sendIdx' = 1
                 /\ UNCHANGED <<result, retErr, hbd, startOver, succCount,
                                errCount, reportedOk, reportedErr>>
    /\ UNCHANGED <<req, params, wfpc, wfErr, invocation, lastHb, cancelled,
                   taskCh, respCh,
                   workVars, countCalls, restored, mutations, walkMutated,
                   walkDescribed, walkGone, drainedNow, drained, abortedIn, acquired>>

\* SendTask giving the task an empty snapshot instead of hbd
SendTask_EmptySnapshot ==
    /\ dpc = "send"
    /\ Len(taskCh) < pageSize
    /\ taskCh' = Append(taskCh, [execution |-> resp.Executions[sendIdx],
                                 attempts |-> 0,
                                 hbd |-> ZeroHBD])
    /\ IF sendIdx = Len(resp.Executions)
       THEN /\ dpc' = "wait"
            /\ succCount' = 0
            /\ errCount' = 0
            /\ abortedIn' = 0
            /\ UNCHANGED sendIdx
       ELSE /\ sendIdx' = sendIdx + 1
            /\ UNCHANGED <<dpc, succCount, errCount, abortedIn>>
    /\ UNCHANGED <<req, params, wfpc, wfErr, invocation, lastHb, cancelled,
                   hbd, startOver, resp, result, retErr, respCh, workVars,
                   faults, countCalls, scanTokens, restored, mutations,
                   walkMutated, walkDescribed, walkGone, drainedNow, drained,
                   reportedOk, reportedErr, acquired>>

\* lines 276-285: send one task of the page; after the last, start counting
SendTask ==
    /\ dpc = "send"
    /\ Len(taskCh) < pageSize
    /\ taskCh' = Append(taskCh, [execution |-> resp.Executions[sendIdx],
                                 attempts |-> 0,
                                 hbd |-> hbd])
    /\ IF sendIdx = Len(resp.Executions)
       THEN /\ dpc' = "wait"
            /\ succCount' = 0
            /\ errCount' = 0
            /\ abortedIn' = 0
            /\ UNCHANGED sendIdx
       ELSE /\ sendIdx' = sendIdx + 1
            /\ UNCHANGED <<dpc, succCount, errCount, abortedIn>>
    /\ UNCHANGED <<req, params, wfpc, wfErr, invocation, lastHb, cancelled,
                   hbd, startOver, resp, result, retErr, respCh, workVars,
                   faults, countCalls, scanTokens, restored, mutations,
                   walkMutated, walkDescribed, walkGone, drainedNow, drained,
                   reportedOk, reportedErr, acquired>>

\* ReceiveResponse returning the error of a task as the activity's error
ReceiveResponse_PropagatesError ==
    /\ dpc = "wait"
    /\ respCh # <<>>
    /\ LET err == Head(respCh)
       IN IF err # NoErr
          THEN /\ ReturnErr(err)
               /\ FrameGone
               /\ TalliesGone
               /\ UNCHANGED abortedIn
          ELSE /\ succCount' = succCount + 1
               /\ abortedIn' = abortedIn
               /\ dpc' = IF succCount + 1 + errCount = Len(resp.Executions)
                         THEN "advance" ELSE dpc
               /\ UNCHANGED <<hbd, startOver, resp, sendIdx, errCount, result,
                              retErr, reportedOk, reportedErr>>
    /\ respCh' = Tail(respCh)
    /\ UNCHANGED <<req, params, wfpc, wfErr, invocation, lastHb, cancelled,
                   taskCh, workVars, faults, countCalls, scanTokens, restored,
                   mutations, walkMutated, walkDescribed, walkGone, drainedNow, drained,
                   acquired>>

\* ReceiveResponse leaving the loop one outcome before the page is complete
ReceiveResponse_StopsOneShort ==
    /\ dpc = "wait"
    /\ respCh # <<>>
    /\ LET err == Head(respCh)
           succ == IF err = NoErr THEN succCount + 1 ELSE succCount
           errs == IF err = NoErr THEN errCount ELSE errCount + 1
       IN /\ succCount' = succ
          /\ errCount' = errs
          /\ abortedIn' = IF err = CtxErr THEN abortedIn + 1 ELSE abortedIn
          /\ dpc' = IF succ + errs >= Len(resp.Executions) - 1
                    THEN "advance" ELSE dpc
    /\ respCh' = Tail(respCh)
    /\ UNCHANGED <<req, params, wfpc, wfErr, invocation, lastHb, cancelled,
                   hbd, startOver, resp, sendIdx, result, retErr, taskCh,
                   workVars, faults, countCalls, scanTokens, restored,
                   mutations, walkMutated, walkDescribed, walkGone, drainedNow, drained,
                   reportedOk, reportedErr, acquired>>

\* lines 290-298: case err := <-respCh
ReceiveResponse ==
    /\ dpc = "wait"
    /\ respCh # <<>>
    /\ LET err == Head(respCh)
           succ == IF err = NoErr THEN succCount + 1 ELSE succCount
           errs == IF err = NoErr THEN errCount ELSE errCount + 1
       IN /\ succCount' = succ
          /\ errCount' = errs
          /\ abortedIn' = IF err = CtxErr THEN abortedIn + 1 ELSE abortedIn
          /\ dpc' = IF succ + errs = Len(resp.Executions) THEN "advance" ELSE dpc
    /\ respCh' = Tail(respCh)
    /\ UNCHANGED <<req, params, wfpc, wfErr, invocation, lastHb, cancelled,
                   hbd, startOver, resp, sendIdx, result, retErr, taskCh,
                   workVars, faults, countCalls, scanTokens, restored,
                   mutations, walkMutated, walkDescribed, walkGone, drainedNow, drained,
                   reportedOk, reportedErr, acquired>>

\* ReceiveDone closing the page (cursor advanced, heartbeat recorded) before
\* it returns the context error
ReceiveDone_ClosesPage ==
    /\ dpc = "wait"
    /\ cancelled
    /\ lastHb' = Details([hbd EXCEPT !.CurrentPage = @ + 1,
                                     !.PageToken = resp.NextPageToken,
                                     !.SuccessCount = @ + succCount,
                                     !.ErrorCount = @ + errCount])
    /\ ReturnErr(CtxErr)
    /\ FrameGone
    /\ TalliesGone
    /\ UNCHANGED <<req, params, wfpc, wfErr, invocation, cancelled,
                   taskCh, respCh, workVars, faults, countCalls, scanTokens,
                   restored, mutations, walkMutated, walkDescribed, walkGone,
                   drainedNow, drained, abortedIn, acquired>>

\* lines 299-300: case <-ctx.Done()
ReceiveDone ==
    /\ dpc = "wait"
    /\ cancelled
    /\ ReturnErr(CtxErr)
    /\ FrameGone
    /\ TalliesGone
    /\ UNCHANGED <<req, params, wfpc, wfErr, invocation, lastHb, cancelled,
                   taskCh, respCh, workVars, faults, countCalls, scanTokens,
                   restored, mutations, walkMutated, walkDescribed, walkGone,
                   drainedNow, drained, abortedIn, acquired>>

\* AdvancePage recording the heartbeat before it updates hbd
AdvancePage_HeartbeatBeforeUpdate ==
    /\ dpc = "advance"
    /\ hbd' = [hbd EXCEPT !.CurrentPage = @ + 1,
                          !.PageToken = resp.NextPageToken,
                          !.SuccessCount = @ + succCount,
                          !.ErrorCount = @ + errCount]
    /\ lastHb' = Details(hbd)
    /\ dpc' = IF hbd'.PageToken = "" THEN "return" ELSE "scan"
    /\ drainedNow' = drainedNow \cup
                        {resp.Executions[i] : i \in 1..Len(resp.Executions)}
    /\ UNCHANGED <<req, params, wfpc, wfErr, invocation, cancelled,
                   startOver, resp, sendIdx, succCount, errCount, result,
                   retErr, taskCh, respCh, workVars, faults, countCalls,
                   scanTokens, restored, mutations, walkMutated,
                   walkDescribed, walkGone, drained, abortedIn,
                   reportedOk, reportedErr, acquired>>

\* AdvancePage taking the targets of the page off the estimate
AdvancePage_Recounts ==
    /\ dpc = "advance"
    /\ hbd' = [hbd EXCEPT !.CurrentPage = @ + 1,
                          !.PageToken = resp.NextPageToken,
                          !.TotalEstimate = @ - Len(resp.Executions),
                          !.SuccessCount = @ + succCount,
                          !.ErrorCount = @ + errCount]
    /\ lastHb' = Details(hbd')
    /\ dpc' = IF hbd'.PageToken = "" THEN "return" ELSE "scan"
    /\ drainedNow' = drainedNow \cup
                        {resp.Executions[i] : i \in 1..Len(resp.Executions)}
    /\ UNCHANGED <<req, params, wfpc, wfErr, invocation, cancelled,
                   startOver, resp, sendIdx, succCount, errCount, result,
                   retErr, taskCh, respCh, workVars, faults, countCalls,
                   scanTokens, restored, mutations, walkMutated,
                   walkDescribed, walkGone, drained, abortedIn,
                   reportedOk, reportedErr, acquired>>

\* lines 304-312: advance the cursor and record the heartbeat
AdvancePage ==
    /\ dpc = "advance"
    /\ hbd' = [hbd EXCEPT !.CurrentPage = @ + 1,
                          !.PageToken = resp.NextPageToken,
                          !.SuccessCount = @ + succCount,
                          !.ErrorCount = @ + errCount]
    /\ lastHb' = Details(hbd')
    /\ dpc' = IF hbd'.PageToken = "" THEN "return" ELSE "scan"
    /\ drainedNow' = drainedNow \cup
                        {resp.Executions[i] : i \in 1..Len(resp.Executions)}
    /\ UNCHANGED <<req, params, wfpc, wfErr, invocation, cancelled,
                   startOver, resp, sendIdx, succCount, errCount, result,
                   retErr, taskCh, respCh, workVars, faults, countCalls,
                   scanTokens, restored, mutations, walkMutated,
                   walkDescribed, walkGone, drained, abortedIn,
                   reportedOk, reportedErr, acquired>>

\* ReturnOk recording a heartbeat with the final state before it returns
ReturnOk_AfterHeartbeat ==
    /\ dpc = "return"
    /\ dpc' = "done"
    /\ result' = hbd
    /\ retErr' = NoErr
    /\ lastHb' = Details(hbd)
    /\ FrameGone
    /\ UNCHANGED <<req, params, wfpc, wfErr, invocation, cancelled,
                   taskCh, respCh, workVars, faults, histVars>>

\* line 315: return hbd, nil
ReturnOk ==
    /\ dpc = "return"
    /\ dpc' = "done"
    /\ result' = hbd
    /\ retErr' = NoErr
    /\ FrameGone
    /\ UNCHANGED <<req, params, wfpc, wfErr, invocation, lastHb, cancelled,
                   taskCh, respCh, workVars, faults, histVars>>

(***************************************************************************)
(* startTaskProcessor (workflow.go:318-375) and processTask (377-430).     *)
(***************************************************************************)
\* applyOnChild with Signal given the caller's cancel flag instead of false
applyOnChild_SignalTakesFlag(p) ==
    CASE p.BatchType = BatchTypeTerminate -> p.TerminateChildren
      [] OTHER -> p.CancelChildren

\* the applyOnChild argument startTaskProcessor passes to processTask
applyOnChild(p) ==
    CASE p.BatchType = BatchTypeTerminate -> p.TerminateChildren
      [] p.BatchType = BatchTypeCancel -> p.CancelChildren
      [] OTHER -> BoolPtr(FALSE)

\* line 416: applyOnChild != nil && *applyOnChild
AppliesToChildren(p) == applyOnChild(p) # NilBool /\ applyOnChild(p) = "true"

\* line 362: the error is reported on respCh rather than retried
IsTerminal(p, t, err) ==
    err \in p.nonRetryableErrors \/ t.attempts >= p.AttemptsOnRetryableError

\* the answers of a mutation RPC (procFn) and of describe
MutateErrors ==
    (IF faults < MaxFaults THEN {EntityNotExistsError} \cup ErrMessages ELSE {})
        \cup (IF cancelled THEN {CtxErr} ELSE {})

DescribeErrors ==
    (IF faults < MaxFaults THEN {EntityNotExistsError, ErrTransient} ELSE {})
        \cup (IF cancelled THEN {CtxErr} ELSE {})

\* the locals of one iteration of the processor's loop, once it has ended
IterationGone(w) ==
    /\ task' = [task EXCEPT ![w] = NoTask]
    /\ wfs' = [wfs EXCEPT ![w] = <<>>]
    /\ wf' = [wf EXCEPT ![w] = ""]
    /\ werr' = [werr EXCEPT ![w] = NoErr]
    /\ walkMutated' = [walkMutated EXCEPT ![w] = <<>>]
    /\ walkDescribed' = [walkDescribed EXCEPT ![w] = <<>>]
    /\ walkGone' = [walkGone EXCEPT ![w] = <<>>]

\* ProcessorDone returning also when taskCh is empty and ctx is live
ProcessorDone_OnEmptyChannel(w) ==
    /\ wpc[w] = "idle"
    /\ cancelled \/ taskCh = <<>>
    /\ wpc' = [wpc EXCEPT ![w] = "exited"]
    /\ UNCHANGED <<req, params, wfpc, wfErr, invocation, lastHb, cancelled,
                   dispVars, taskCh, respCh, task, wfs, wf, werr, faults,
                   histVars>>

\* lines 328-330: case <-ctx.Done(): return
ProcessorDone(w) ==
    /\ wpc[w] = "idle"
    /\ cancelled
    /\ wpc' = [wpc EXCEPT ![w] = "exited"]
    /\ UNCHANGED <<req, params, wfpc, wfErr, invocation, lastHb, cancelled,
                   dispVars, taskCh, respCh, task, wfs, wf, werr, faults,
                   histVars>>

\* TakeTask processing the task it received whatever the state of ctx
TakeTask_ProcessesAfterCancel(w) ==
    /\ wpc[w] = "idle"
    /\ taskCh # <<>>
    /\ taskCh' = Tail(taskCh)
    /\ wpc' = [wpc EXCEPT ![w] = "acquire"]
    /\ task' = [task EXCEPT ![w] = Head(taskCh)]
    /\ wfs' = [wfs EXCEPT ![w] = <<Head(taskCh).execution>>]
    /\ walkMutated' = [walkMutated EXCEPT ![w] = <<>>]
    /\ walkDescribed' = [walkDescribed EXCEPT ![w] = <<>>]
    /\ walkGone' = [walkGone EXCEPT ![w] = <<>>]
    /\ UNCHANGED <<req, params, wfpc, wfErr, invocation, lastHb, cancelled,
                   dispVars, respCh, wf, werr, faults, countCalls,
                   scanTokens, restored, mutations, drainedNow, drained,
                   abortedIn,
                   reportedOk, reportedErr, acquired>>

\* lines 331-334, 386: case task := <-taskCh, then isDone(ctx)
TakeTask(w) ==
    /\ wpc[w] = "idle"
    /\ taskCh # <<>>
    /\ taskCh' = Tail(taskCh)
    /\ IF cancelled
       THEN /\ wpc' = [wpc EXCEPT ![w] = "exited"]
            /\ UNCHANGED <<task, wfs, walkMutated, walkDescribed, walkGone>>
       ELSE /\ wpc' = [wpc EXCEPT ![w] = "acquire"]
            /\ task' = [task EXCEPT ![w] = Head(taskCh)]
            /\ wfs' = [wfs EXCEPT ![w] = <<Head(taskCh).execution>>]
            /\ walkMutated' = [walkMutated EXCEPT ![w] = <<>>]
            /\ walkDescribed' = [walkDescribed EXCEPT ![w] = <<>>]
            /\ walkGone' = [walkGone EXCEPT ![w] = <<>>]
    /\ UNCHANGED <<req, params, wfpc, wfErr, invocation, lastHb, cancelled,
                   dispVars, respCh, wf, werr, faults, countCalls,
                   scanTokens, restored, mutations, drainedNow, drained,
                   abortedIn,
                   reportedOk, reportedErr, acquired>>

\* LimiterWait going on to procFn when limiter.Wait returned an error
LimiterWait_IgnoresError(w) ==
    /\ wpc[w] = "acquire"
    /\ wf' = [wf EXCEPT ![w] = Head(wfs[w])]
    /\ wpc' = [wpc EXCEPT ![w] = "mutate"]
    /\ acquired' = IF cancelled THEN acquired ELSE acquired + 1
    /\ UNCHANGED <<req, params, wfpc, wfErr, invocation, lastHb, cancelled,
                   dispVars, taskCh, respCh, task, wfs, werr, faults,
                   countCalls, scanTokens, restored, mutations, walkMutated,
                   walkDescribed, walkGone, drainedNow, drained, abortedIn, reportedOk,
                   reportedErr>>

\* lines 388-393: wf := wfs[0]; limiter.Wait(ctx)
LimiterWait(w) ==
    /\ wpc[w] = "acquire"
    /\ wf' = [wf EXCEPT ![w] = Head(wfs[w])]
    /\ IF cancelled
       THEN /\ werr' = [werr EXCEPT ![w] = CtxErr]
            /\ wpc' = [wpc EXCEPT ![w] = "report"]
            /\ UNCHANGED acquired
       ELSE /\ wpc' = [wpc EXCEPT ![w] = "mutate"]
            /\ acquired' = acquired + 1
            /\ UNCHANGED werr
    /\ UNCHANGED <<req, params, wfpc, wfErr, invocation, lastHb, cancelled,
                   dispVars, taskCh, respCh, task, wfs, faults, countCalls,
                   scanTokens, restored, mutations, walkMutated,
                   walkDescribed, walkGone, drainedNow, drained, abortedIn, reportedOk,
                   reportedErr>>

\* Mutate returning every error of procFn, EntityNotExistsError included
Mutate_NotExistsFails(w) ==
    /\ wpc[w] = "mutate"
    /\ mutations' = [mutations EXCEPT ![wf[w]] = @ + 1]
    /\ walkMutated' = [walkMutated EXCEPT ![w] = Append(@, wf[w])]
    /\ \E err \in {NoErr} \cup MutateErrors :
         /\ faults' = faults + FaultOf(err)
         /\ walkGone' = IF err = EntityNotExistsError
                        THEN [walkGone EXCEPT ![w] = Append(@, <<"mutate", wf[w]>>)]
                        ELSE walkGone
         /\ IF err = NoErr
            THEN /\ wfs' = [wfs EXCEPT ![w] = Tail(@)]
                 /\ wpc' = [wpc EXCEPT ![w] = "describe"]
                 /\ UNCHANGED werr
            ELSE /\ werr' = [werr EXCEPT ![w] = err]
                 /\ wpc' = [wpc EXCEPT ![w] = "report"]
                 /\ UNCHANGED wfs
    /\ UNCHANGED <<req, params, wfpc, wfErr, invocation, lastHb, cancelled,
                   dispVars, taskCh, respCh, task, wf, countCalls,
                   scanTokens, restored, walkDescribed, drainedNow,
                   drained, abortedIn, reportedOk, reportedErr, acquired>>

\* lines 395-403: procFn(wf), EntityNotExistsError taken as success
Mutate(w) ==
    /\ wpc[w] = "mutate"
    /\ mutations' = [mutations EXCEPT ![wf[w]] = @ + 1]
    /\ walkMutated' = [walkMutated EXCEPT ![w] = Append(@, wf[w])]
    /\ \E err \in {NoErr} \cup MutateErrors :
         /\ faults' = faults + FaultOf(err)
         /\ walkGone' = IF err = EntityNotExistsError
                        THEN [walkGone EXCEPT ![w] = Append(@, <<"mutate", wf[w]>>)]
                        ELSE walkGone
         /\ IF err \in {NoErr, EntityNotExistsError}
            THEN /\ wfs' = [wfs EXCEPT ![w] = Tail(@)]
                 /\ wpc' = [wpc EXCEPT ![w] = "describe"]
                 /\ UNCHANGED werr
            ELSE /\ werr' = [werr EXCEPT ![w] = err]
                 /\ wpc' = [wpc EXCEPT ![w] = "report"]
                 /\ UNCHANGED wfs
    /\ UNCHANGED <<req, params, wfpc, wfErr, invocation, lastHb, cancelled,
                   dispVars, taskCh, respCh, task, wf, countCalls,
                   scanTokens, restored, walkDescribed, drainedNow,
                   drained, abortedIn, reportedOk, reportedErr, acquired>>

\* lines 387, 429: the loop test, and return nil when wfs is empty
WalkNext(w, queue) ==
    IF Len(queue) > 0
    THEN /\ wpc' = [wpc EXCEPT ![w] = "acquire"]
         /\ UNCHANGED werr
    ELSE /\ wpc' = [wpc EXCEPT ![w] = "report"]
         /\ werr' = [werr EXCEPT ![w] = NoErr]

\* Describe enqueuing the pending children of the task's own target only
Describe_RootChildrenOnly(w) ==
    /\ wpc[w] = "describe"
    /\ \E err \in {NoErr} \cup DescribeErrors :
         /\ faults' = faults + FaultOf(err)
         /\ CASE err = NoErr ->
                   /\ wfs' = [wfs EXCEPT ![w] =
                                IF AppliesToChildren(params)
                                      /\ wf[w] = task[w].execution
                                      /\ Len(PendingChildren(wf[w])) > 0
                                THEN @ \o PendingChildren(wf[w])
                                ELSE @]
                   /\ lastHb' = Details(task[w].hbd)
                   /\ walkDescribed' = [walkDescribed EXCEPT ![w] = Append(@, wf[w])]
                   /\ WalkNext(w, wfs'[w])
                   /\ UNCHANGED walkGone
              [] err = EntityNotExistsError ->
                   /\ WalkNext(w, wfs[w])
                   /\ walkGone' = [walkGone EXCEPT ![w] =
                                     Append(@, <<"describe", wf[w]>>)]
                   /\ UNCHANGED <<wfs, lastHb, walkDescribed>>
              [] OTHER ->
                   /\ werr' = [werr EXCEPT ![w] = err]
                   /\ wpc' = [wpc EXCEPT ![w] = "report"]
                   /\ UNCHANGED <<wfs, lastHb, walkDescribed, walkGone>>
    /\ UNCHANGED <<req, params, wfpc, wfErr, invocation, cancelled,
                   dispVars, taskCh, respCh, task, wf, countCalls,
                   scanTokens, restored, mutations, walkMutated, drainedNow,
                   drained, abortedIn,
                   reportedOk, reportedErr, acquired>>

\* Describe putting the pending children at the front of the queue
Describe_ChildrenFirst(w) ==
    /\ wpc[w] = "describe"
    /\ \E err \in {NoErr} \cup DescribeErrors :
         /\ faults' = faults + FaultOf(err)
         /\ CASE err = NoErr ->
                   /\ wfs' = [wfs EXCEPT ![w] =
                                IF AppliesToChildren(params)
                                      /\ Len(PendingChildren(wf[w])) > 0
                                THEN PendingChildren(wf[w]) \o @
                                ELSE @]
                   /\ lastHb' = Details(task[w].hbd)
                   /\ walkDescribed' = [walkDescribed EXCEPT ![w] = Append(@, wf[w])]
                   /\ WalkNext(w, wfs'[w])
                   /\ UNCHANGED walkGone
              [] err = EntityNotExistsError ->
                   /\ WalkNext(w, wfs[w])
                   /\ walkGone' = [walkGone EXCEPT ![w] =
                                     Append(@, <<"describe", wf[w]>>)]
                   /\ UNCHANGED <<wfs, lastHb, walkDescribed>>
              [] OTHER ->
                   /\ werr' = [werr EXCEPT ![w] = err]
                   /\ wpc' = [wpc EXCEPT ![w] = "report"]
                   /\ UNCHANGED <<wfs, lastHb, walkDescribed, walkGone>>
    /\ UNCHANGED <<req, params, wfpc, wfErr, invocation, cancelled,
                   dispVars, taskCh, respCh, task, wf, countCalls,
                   scanTokens, restored, mutations, walkMutated, drainedNow,
                   drained, abortedIn,
                   reportedOk, reportedErr, acquired>>

\* lines 404-427: describe wf, enqueue its pending children, heartbeat
Describe(w) ==
    /\ wpc[w] = "describe"
    /\ \E err \in {NoErr} \cup DescribeErrors :
         /\ faults' = faults + FaultOf(err)
         /\ CASE err = NoErr ->
                   /\ wfs' = [wfs EXCEPT ![w] =
                                IF AppliesToChildren(params)
                                      /\ Len(PendingChildren(wf[w])) > 0
                                THEN @ \o PendingChildren(wf[w])
                                ELSE @]
                   /\ lastHb' = Details(task[w].hbd)
                   /\ walkDescribed' = [walkDescribed EXCEPT ![w] = Append(@, wf[w])]
                   /\ WalkNext(w, wfs'[w])
                   /\ UNCHANGED walkGone
              [] err = EntityNotExistsError ->
                   /\ WalkNext(w, wfs[w])
                   /\ walkGone' = [walkGone EXCEPT ![w] =
                                     Append(@, <<"describe", wf[w]>>)]
                   /\ UNCHANGED <<wfs, lastHb, walkDescribed>>
              [] OTHER ->
                   /\ werr' = [werr EXCEPT ![w] = err]
                   /\ wpc' = [wpc EXCEPT ![w] = "report"]
                   /\ UNCHANGED <<wfs, lastHb, walkDescribed, walkGone>>
    /\ UNCHANGED <<req, params, wfpc, wfErr, invocation, cancelled,
                   dispVars, taskCh, respCh, task, wf, countCalls,
                   scanTokens, restored, mutations, walkMutated, drainedNow,
                   drained, abortedIn,
                   reportedOk, reportedErr, acquired>>

\* Report sending the error of an attempt on respCh and also putting the
\* task back for a retry
Report_ReportsRetries(w) ==
    /\ wpc[w] = "report"
    /\ IF werr[w] # NoErr /\ ~IsTerminal(params, task[w], werr[w])
       THEN /\ Len(taskCh) < pageSize
            /\ Len(respCh) < pageSize
            /\ taskCh' = Append(taskCh, [task[w] EXCEPT !.attempts = @ + 1])
            /\ respCh' = Append(respCh, werr[w])
            /\ reportedErr' = reportedErr + 1
            /\ UNCHANGED reportedOk
       ELSE /\ Len(respCh) < pageSize
            /\ respCh' = Append(respCh, werr[w])
            /\ reportedOk' = IF werr[w] = NoErr THEN reportedOk + 1 ELSE reportedOk
            /\ reportedErr' = IF werr[w] = NoErr THEN reportedErr ELSE reportedErr + 1
            /\ UNCHANGED taskCh
    /\ wpc' = [wpc EXCEPT ![w] = "idle"]
    /\ IterationGone(w)
    /\ UNCHANGED <<req, params, wfpc, wfErr, invocation, lastHb, cancelled,
                   dispVars, faults, countCalls, scanTokens, restored,
                   mutations, drainedNow, drained, abortedIn,
                   acquired>>

\* Report putting the task back with an empty snapshot
Report_RetryLosesSnapshot(w) ==
    /\ wpc[w] = "report"
    /\ IF werr[w] # NoErr /\ ~IsTerminal(params, task[w], werr[w])
       THEN /\ Len(taskCh) < pageSize
            /\ taskCh' = Append(taskCh, [task[w] EXCEPT !.attempts = @ + 1,
                                                        !.hbd = ZeroHBD])
            /\ UNCHANGED <<respCh, reportedOk, reportedErr>>
       ELSE /\ Len(respCh) < pageSize
            /\ respCh' = Append(respCh, werr[w])
            /\ reportedOk' = IF werr[w] = NoErr THEN reportedOk + 1 ELSE reportedOk
            /\ reportedErr' = IF werr[w] = NoErr THEN reportedErr ELSE reportedErr + 1
            /\ UNCHANGED taskCh
    /\ wpc' = [wpc EXCEPT ![w] = "idle"]
    /\ IterationGone(w)
    /\ UNCHANGED <<req, params, wfpc, wfErr, invocation, lastHb, cancelled,
                   dispVars, faults, countCalls, scanTokens, restored,
                   mutations, drainedNow, drained, abortedIn,
                   acquired>>

\* Report dropping the task whose error is terminal
Report_DropsTerminal(w) ==
    /\ wpc[w] = "report"
    /\ IF werr[w] # NoErr /\ ~IsTerminal(params, task[w], werr[w])
       THEN /\ Len(taskCh) < pageSize
            /\ taskCh' = Append(taskCh, [task[w] EXCEPT !.attempts = @ + 1])
            /\ UNCHANGED <<respCh, reportedOk, reportedErr>>
       ELSE IF werr[w] # NoErr
       THEN UNCHANGED <<taskCh, respCh, reportedOk, reportedErr>>
       ELSE /\ Len(respCh) < pageSize
            /\ respCh' = Append(respCh, werr[w])
            /\ reportedOk' = reportedOk + 1
            /\ UNCHANGED <<taskCh, reportedErr>>
    /\ wpc' = [wpc EXCEPT ![w] = "idle"]
    /\ IterationGone(w)
    /\ UNCHANGED <<req, params, wfpc, wfErr, invocation, lastHb, cancelled,
                   dispVars, faults, countCalls, scanTokens, restored,
                   mutations, drainedNow, drained, abortedIn,
                   acquired>>

\* lines 357-372: report the outcome on respCh, or put the task back
Report(w) ==
    /\ wpc[w] = "report"
    /\ IF werr[w] # NoErr /\ ~IsTerminal(params, task[w], werr[w])
       THEN /\ Len(taskCh) < pageSize
            /\ taskCh' = Append(taskCh, [task[w] EXCEPT !.attempts = @ + 1])
            /\ UNCHANGED <<respCh, reportedOk, reportedErr>>
       ELSE /\ Len(respCh) < pageSize
            /\ respCh' = Append(respCh, werr[w])
            /\ reportedOk' = IF werr[w] = NoErr THEN reportedOk + 1 ELSE reportedOk
            /\ reportedErr' = IF werr[w] = NoErr THEN reportedErr ELSE reportedErr + 1
            /\ UNCHANGED taskCh
    /\ wpc' = [wpc EXCEPT ![w] = "idle"]
    /\ IterationGone(w)
    /\ UNCHANGED <<req, params, wfpc, wfErr, invocation, lastHb, cancelled,
                   dispVars, faults, countCalls, scanTokens, restored,
                   mutations, drainedNow, drained, abortedIn,
                   acquired>>

(***************************************************************************)
(* The activity host: cancellation of ctx, loss of the worker process,     *)
(* and the retry of the activity with the recorded heartbeat details.      *)
(***************************************************************************)
Cancel ==
    /\ dpc \in Running
    /\ ~cancelled
    /\ cancelled' = TRUE
    /\ UNCHANGED <<req, params, wfpc, wfErr, invocation, lastHb, dispVars,
                   taskCh, respCh, workVars, faults, histVars>>

\* the worker process is lost: nothing of the invocation survives but what
\* the host recorded
Crash ==
    /\ dpc \in Running
    /\ dpc' = "crashed"
    /\ FrameGone
    /\ taskCh' = <<>>
    /\ respCh' = <<>>
    /\ wpc' = [w \in Workers |-> "none"]
    /\ task' = [w \in Workers |-> NoTask]
    /\ wfs' = [w \in Workers |-> <<>>]
    /\ wf' = [w \in Workers |-> ""]
    /\ werr' = [w \in Workers |-> NoErr]
    /\ countCalls' = 0
    /\ scanTokens' = <<>>
    /\ restored' = NoDetails
    /\ mutations' = [e \in Executions |-> 0]
    /\ walkMutated' = [w \in Workers |-> <<>>]
    /\ walkDescribed' = [w \in Workers |-> <<>>]
    /\ walkGone' = [w \in Workers |-> <<>>]
    /\ drained' = drained \cup drainedNow
    /\ drainedNow' = {}
    /\ abortedIn' = 0
    /\ reportedOk' = 0
    /\ reportedErr' = 0
    /\ acquired' = 0
    /\ cancelled' = FALSE
    /\ UNCHANGED <<req, params, wfpc, wfErr, invocation, lastHb,
                   result, retErr, faults>>

\* batchActivityRetryPolicy: the host runs BatchActivity again after an
\* error or a lost worker; the goroutines of the earlier run are gone
Reinvoke ==
    /\ \/ dpc = "crashed"
       \/ dpc = "done" /\ retErr # NoErr
    /\ invocation < MaxInvocations
    /\ invocation' = invocation + 1
    /\ cancelled' = FALSE
    /\ dpc' = "entry"
    /\ hbd' = ZeroHBD
    /\ startOver' = TRUE
    /\ resp' = NoResp
    /\ sendIdx' = 0
    /\ succCount' = 0
    /\ errCount' = 0
    /\ result' = ZeroHBD
    /\ retErr' = NoErr
    /\ taskCh' = <<>>
    /\ respCh' = <<>>
    /\ wpc' = [w \in Workers |-> "none"]
    /\ task' = [w \in Workers |-> NoTask]
    /\ wfs' = [w \in Workers |-> <<>>]
    /\ wf' = [w \in Workers |-> ""]
    /\ werr' = [w \in Workers |-> NoErr]
    /\ countCalls' = 0
    /\ scanTokens' = <<>>
    /\ restored' = NoDetails
    /\ mutations' = [e \in Executions |-> 0]
    /\ walkMutated' = [w \in Workers |-> <<>>]
    /\ walkDescribed' = [w \in Workers |-> <<>>]
    /\ walkGone' = [w \in Workers |-> <<>>]
    /\ drained' = drained \cup drainedNow
    /\ drainedNow' = {}
    /\ abortedIn' = 0
    /\ reportedOk' = 0
    /\ reportedErr' = 0
    /\ acquired' = 0
    /\ UNCHANGED <<req, params, wfpc, wfErr, lastHb, faults>>

(***************************************************************************)
(* Specifications.                                                         *)
(***************************************************************************)
\* a valid request
Request(bt, tch, cch, rps, conc, att, nre) ==
    [DomainName |-> "x", Query |-> "x", Reason |-> "x", BatchType |-> bt,
     TerminateChildren |-> tch, CancelChildren |-> cch, SignalName |-> "x",
     RPS |-> rps, Concurrency |-> conc, AttemptsOnRetryableError |-> att,
     ActivityHeartBeatTimeout |-> 30, NonRetryableErrors |-> nre,
     nonRetryableErrors |-> {}]

\* operation and children flags: each operation with its own flag unset,
\* set and cleared, and Signal with both flags set or unset
Operations ==
    {<<BatchTypeTerminate, tch, NilBool>> : tch \in {NilBool, "true", "false"}}
    \cup {<<BatchTypeCancel, NilBool, cch>> : cch \in {NilBool, "true", "false"}}
    \cup {<<BatchTypeSignal, "true", "true">>, <<BatchTypeSignal, NilBool, NilBool>>}

\* the requests the engine is explored with: every operation with one task
\* processor (concurrency defaulted from rps = 10) and one or two attempts,
\* two of them with MaxWorkers task processors, and one whose defaulted
\* concurrency is rps / 10 = 0, one whose query matches no execution, and
\* one whose query matches the execution whose children branch
EngineRequests ==
    {Request(op[1], op[2], op[3], 10, 0, att, {ErrForbidden}) :
        op \in Operations, att \in {1, 2}}
    \cup {Request(op[1], op[2], op[3], 10, MaxWorkers, 1, {ErrForbidden}) :
        op \in {<<BatchTypeTerminate, NilBool, NilBool>>,
                <<BatchTypeSignal, "true", "true">>}}
    \cup {Request(BatchTypeTerminate, NilBool, NilBool, 5, 0, 1, {})}
    \cup {[Request(BatchTypeTerminate, NilBool, NilBool, 10, 0, 1, {})
              EXCEPT !.Query = EmptyQuery]}
    \cup {[Request(BatchTypeTerminate, NilBool, NilBool, 10, 0, 1, {})
              EXCEPT !.Query = TreeQuery]}

\* the requests resumption is explored with
ResumeRequests ==
    {Request(BatchTypeTerminate, NilBool, NilBool, 10, 1, 1, {})}

Init == InitWith(EngineRequests)

Next ==
    \/ BatchWorkflow
    \/ BatchActivityEntry
    \/ Scan
    \/ SendTask
    \/ ReceiveResponse
    \/ ReceiveDone
    \/ AdvancePage
    \/ ReturnOk
    \/ \E w \in Workers : ProcessorDone(w)
    \/ \E w \in Workers : TakeTask(w)
    \/ \E w \in Workers : LimiterWait(w)
    \/ \E w \in Workers : Mutate(w)
    \/ \E w \in Workers : Describe(w)
    \/ \E w \in Workers : Report(w)
    \/ Cancel

Spec == Init /\ [][Next]_vars

\* the engine under loss of the worker process and retry of the activity
InitResume == InitWith(ResumeRequests)

NextResume ==
    \/ Next
    \/ Crash
    \/ Reinvoke

SpecResume == InitResume /\ [][NextResume]_vars

\* BatchWorkflow alone, over every request
InitParams == InitWith(AllRequests)

NextParams == BatchWorkflow

SpecParams == InitParams /\ [][NextParams]_vars

\* the engine without cancellation, under fair scheduling of its goroutines
LiveRequests ==
    {Request(BatchTypeTerminate, NilBool, NilBool, 10, 0, 2, {}),
     Request(BatchTypeCancel, NilBool, "true", 10, MaxWorkers, 1, {}),
     Request(BatchTypeSignal, NilBool, NilBool, 5, 1, 1, {}),
     Request(BatchTypeTerminate, NilBool, NilBool, 5, 0, 1, {})}

InitLive == InitWith(LiveRequests)

\* the goroutine of BatchWorkflow and BatchActivity
Dispatcher ==
    \/ BatchWorkflow
    \/ BatchActivityEntry
    \/ Scan
    \/ SendTask
    \/ ReceiveResponse
    \/ AdvancePage
    \/ ReturnOk

\* the goroutine of one startTaskProcessor
Processor(w) ==
    \/ TakeTask(w)
    \/ LimiterWait(w)
    \/ Mutate(w)
    \/ Describe(w)
    \/ Report(w)

NextLive ==
    \/ Dispatcher
    \/ \E w \in Workers : Processor(w)

\* every goroutine that can take a step eventually takes one
FairLive ==
    /\ WF_vars(Dispatcher)
    /\ \A w \in Workers : WF_vars(Processor(w))

SpecLive == InitLive /\ [][NextLive]_vars /\ FairLive

\* the engine with cancellation, under fair scheduling of its goroutines:
\* one task processor, two of them, and none
CancelRequests ==
    {Request(BatchTypeTerminate, NilBool, NilBool, 10, 0, 1, {}),
     Request(BatchTypeSignal, NilBool, NilBool, 10, 2, 1, {}),
     Request(BatchTypeTerminate, NilBool, NilBool, 5, 0, 1, {})}

InitCancel == InitWith(CancelRequests)

\* the dispatcher's goroutine, its case <-ctx.Done() included
DispatcherCancel ==
    \/ Dispatcher
    \/ ReceiveDone

\* the goroutine of one startTaskProcessor, its case <-ctx.Done() included
ProcessorCancel(w) ==
    \/ Processor(w)
    \/ ProcessorDone(w)

NextCancel ==
    \/ DispatcherCancel
    \/ \E w \in Workers : ProcessorCancel(w)
    \/ Cancel

\* every goroutine that can take a step eventually takes one; the host
\* cancels ctx or not, as it likes
FairCancel ==
    /\ WF_vars(DispatcherCancel)
    /\ \A w \in Workers : WF_vars(ProcessorCancel(w))

SpecCancel == InitCancel /\ [][NextCancel]_vars /\ FairCancel

(***************************************************************************)
(* Properties.                                                             *)
(***************************************************************************)
Range(q) == {q[i] : i \in 1..Len(q)}
Max(a, b) == IF a >= b THEN a ELSE b

\* the task processor w ends its iteration in this step (lines 357-372)
Reports(w) == wpc[w] = "report" /\ wpc'[w] = "idle"

\* processor w holds a task whose processTask call has returned nil
Succeeded(w) == wpc[w] = "report" /\ werr[w] = NoErr

\* C1: a worker that gets a retryable error for a task reports it as
\* terminal when task.attempts >= max_attempts - 1 and otherwise puts it
\* back on the task channel with attempts + 1, so that the mutation of an
\* always failing target is invoked exactly max_attempts times.
C1_RetryBudget ==
    [][\A w \in Workers :
         (Reports(w) /\ werr[w] = ErrTransient
             /\ ErrTransient \notin req.NonRetryableErrors)
         => IF task[w].attempts >= req.AttemptsOnRetryableError - 1
            THEN /\ respCh' = Append(respCh, werr[w])
                 /\ taskCh' = taskCh
            ELSE /\ taskCh' = Append(taskCh, [task[w] EXCEPT !.attempts = @ + 1])
                 /\ respCh' = respCh]_vars

\* C2: a task that fails with a message listed in the request's
\* non_retryable_errors is terminal on its first occurrence: the error is
\* reported on the response channel and the task is not put back on the
\* task channel.
C2_NonRetryableShortcut ==
    [][\A w \in Workers :
         (Reports(w) /\ werr[w] \in req.NonRetryableErrors)
         => /\ respCh' = Append(respCh, werr[w])
            /\ taskCh' = taskCh]_vars

\* C3: when the request leaves concurrency unset (<= 0), the activity runs
\* with concurrency max(1, rps / 10), hence with at least one task
\* processor started.
C3_DefaultConcurrency ==
    (wfpc = "activity" /\ req.Concurrency <= 0)
    => /\ params.Concurrency = Max(1, params.RPS \div defaultRPSPerConcurrency)
       /\ dpc \in {"scan", "send", "wait", "advance", "return"}
            => \E w \in Workers : wpc[w] # "none"

\* the children flag of the request's operation
ChildrenFlag(p) ==
    IF p.BatchType = BatchTypeTerminate THEN p.TerminateChildren
    ELSE p.CancelChildren

\* C4: for Cancel and for Terminate an unset children flag is treated as
\* true: a walk that ends successfully has mutated every pending child that
\* describe returned to it, unless the flag is explicitly false, in which
\* case it has mutated the task's target only.
C4_ChildrenDefault ==
    \A w \in Workers :
        (Succeeded(w) /\ req.BatchType \in {BatchTypeTerminate, BatchTypeCancel})
        => IF ChildrenFlag(req) = "false"
           THEN walkMutated[w] = <<task[w].execution>>
           ELSE \A e \in Range(walkDescribed[w]) :
                    Range(PendingChildren(e)) \subseteq Range(walkMutated[w])

\* C5 as claimed: for Signal no child is ever signaled and each successful
\* task has performed exactly one signal RPC, on the scanned target.
C5_SignalOncePerTask ==
    req.BatchType = BatchTypeSignal
    => /\ \A c \in ChildExecutions : mutations[c] = 0
       /\ \A w \in Workers :
            Succeeded(w) => mutations[task[w].execution] = 1

\* C5 (amended): for Signal, whatever the pending children and the flags,
\* no child is ever signaled; each processTask call issues at most one
\* signal RPC, on the task's target, and exactly one when it succeeds; a
\* task that succeeds after k failed attempts has signaled its target k + 1
\* times in all.
C5_SignalOncePerAttempt ==
    req.BatchType = BatchTypeSignal
    => /\ \A c \in ChildExecutions : mutations[c] = 0
       /\ \A w \in Workers :
            /\ Len(walkMutated[w]) <= 1
            /\ Range(walkMutated[w]) \subseteq {task[w].execution}
            /\ Succeeded(w)
                 => /\ walkMutated[w] = <<task[w].execution>>
                    /\ mutations[task[w].execution] = task[w].attempts + 1

\* a Signal task on the target with pending children succeeds on its second
\* attempt, describe having returned the children
C5_Witness ==
    /\ req.BatchType = BatchTypeSignal
    /\ req.CancelChildren = "true"
    /\ \E w \in Workers :
         /\ Succeeded(w)
         /\ task[w].execution = "w1"
         /\ task[w].attempts = 1
         /\ walkDescribed[w] = <<"w1">>

\* C6: a re-invocation that restored the last recorded heartbeat issues no
\* mutation for a target of a page that an earlier invocation had fully
\* drained, at whatever point that invocation was interrupted, the point
\* after its last page included.
C6_NoReprocessing ==
    HasHeartbeatDetails(restored)
    => \A e \in drained : mutations[e] = 0

\* the dispatcher's hbd is still the one it started the loop with
BeforeFirstAdvance ==
    \/ dpc = "scan" /\ scanTokens = <<>>
    \/ dpc \in {"send", "wait", "advance"} /\ Len(scanTokens) = 1

\* C7: an invocation that decoded the host's heartbeat details does not call
\* count, passes exactly the restored page_token to its first scan, starts
\* from the restored hbd, and its counters never fall below the restored
\* ones: current_page, success_count and error_count of hbd and of the state
\* returned on success are >= the restored values, total_estimate is equal.
C7_Resume ==
    HasHeartbeatDetails(restored)
    => LET h == restored[1]
       IN /\ countCalls = 0
          /\ scanTokens # <<>> => scanTokens[1] = h.PageToken
          /\ BeforeFirstAdvance => hbd = h
          /\ dpc \in {"scan", "send", "wait", "advance", "return"}
               => /\ hbd.CurrentPage >= h.CurrentPage
                  /\ hbd.SuccessCount >= h.SuccessCount
                  /\ hbd.ErrorCount >= h.ErrorCount
                  /\ hbd.TotalEstimate = h.TotalEstimate
          /\ (dpc = "done" /\ retErr = NoErr)
               => /\ result.CurrentPage >= h.CurrentPage
                  /\ result.SuccessCount >= h.SuccessCount
                  /\ result.ErrorCount >= h.ErrorCount
                  /\ result.TotalEstimate = h.TotalEstimate

\* an invocation resumed after page 1 (token T1) has scanned from T1 and
\* returned at page 2
C7_Witness ==
    /\ HasHeartbeatDetails(restored)
    /\ restored[1].PageToken = "T1"
    /\ restored[1].CurrentPage = 1
    /\ scanTokens = <<"T1">>
    /\ dpc = "done"
    /\ retErr = NoErr
    /\ result.CurrentPage = 2

C9_ImmediateReturn ==
    [][(dpc = "wait" /\ cancelled)
         => /\ dpc' \in {"wait", "done"}
            /\ dpc' = "wait" => (succCount' = succCount /\ errCount' = errCount)]_vars

\* C9 (amended): once ctx is cancelled while the dispatcher waits for the
\* outcomes of a page, it may still consume outcomes that are ready on the
\* response channel; when none is ready its next step is the return of the
\* cancellation error, and that return, whenever it is taken, carries an
\* empty state, advances no cursor and records no heartbeat.
C9_ReturnWhenNothingReady ==
    [][/\ (dpc = "wait" /\ cancelled /\ respCh = <<>>
              /\ <<dpc, succCount, errCount, hbd>>' # <<dpc, succCount, errCount, hbd>>)
            => dpc' = "done"
       /\ (dpc = "wait" /\ dpc' = "done")
            => /\ cancelled
               /\ retErr' = CtxErr
               /\ result' = ZeroHBD
               /\ lastHb' = lastHb]_vars

\* the dispatcher has returned the cancellation error while a processor
\* still holds a task of the page and no page heartbeat was recorded
C9_Witness ==
    /\ dpc = "done"
    /\ retErr = CtxErr
    /\ \E w \in Workers : wpc[w] \in {"acquire", "mutate", "describe", "report"}
    /\ \A i \in 1..Len(lastHb) : lastHb[i].CurrentPage = 0

\* C10: a task whose processing was aborted by the cancellation of ctx is
\* never counted: whenever the dispatcher adds a page's outcomes to
\* success_count and error_count and advances the cursor, none of them is
\* the context error.
C10_CancellationNotCounted ==
    [][(dpc = "advance" /\ hbd' # hbd) => abortedIn = 0]_vars

\* processor w holds a task: it is between taking it and reporting on it
Holding(w) == wpc[w] \in {"acquire", "mutate", "describe", "report"}

\* execution e still waits for its outcome: a task for it is on the task
\* channel or in the hands of a processor
Pending(e) ==
    \/ \E i \in 1..Len(taskCh) : taskCh[i].execution = e
    \/ \E w \in Workers : Holding(w) /\ task[w].execution = e

\* the number of executions on the pages the scans with these tokens returned
RECURSIVE ScannedCount(_)
ScannedCount(tokens) ==
    IF tokens = <<>> THEN 0
    ELSE Len(ScanWorkflow(Head(tokens), req.Query).Executions)
            + ScannedCount(Tail(tokens))

\* the state the invocation started from: the restored one, or the zero one
StartState == IF HasHeartbeatDetails(restored) THEN restored[1] ELSE ZeroHBD

\* C11: coverage.  When an invocation, fresh or resumed from a heartbeat h,
\* returns successfully, success_count + error_count has grown over h's
\* values by at least the number of targets on the pages it scanned; and
\* when the dispatcher advances past a page, no target of the page is left
\* without an outcome.
C11_Coverage ==
    /\ (dpc = "done" /\ retErr = NoErr)
         => /\ (result.SuccessCount + result.ErrorCount)
                  - (StartState.SuccessCount + StartState.ErrorCount)
                >= ScannedCount(scanTokens)
            /\ reportedOk + reportedErr >= ScannedCount(scanTokens)
            /\ \A e \in Executions : ~Pending(e)
    /\ dpc = "advance"
         => /\ succCount + errCount = Len(resp.Executions)
            /\ \A e \in Range(resp.Executions) : ~Pending(e)

\* an invocation resumed after page 1 has returned successfully with one
\* more outcome than it restored, one of the three being an error
C11_Witness ==
    /\ HasHeartbeatDetails(restored)
    /\ restored[1].SuccessCount + restored[1].ErrorCount = 2
    /\ scanTokens = <<"T1">>
    /\ dpc = "done"
    /\ retErr = NoErr
    /\ result.SuccessCount + result.ErrorCount = 3
    /\ result.ErrorCount = 1

\* the task processors with a mutation RPC in flight: the token is granted
\* and procFn has not answered yet
InFlight == {w \in Workers : wpc[w] = "mutate"}

\* C12: in every state the number of mutation RPCs in flight is at most
\* concurrency: no more than concurrency task processors run, and each holds
\* at most one task, whose walk it performs one call at a time.
C12_MutationsInFlight ==
    wfpc = "activity"
    => /\ Cardinality(InFlight) <= params.Concurrency
       /\ Cardinality({w \in Workers : wpc[w] # "none"}) <= params.Concurrency

\* with a concurrency of two or more, that many mutations are in flight
C12_Witness ==
    /\ params.Concurrency >= 2
    /\ Cardinality(InFlight) = params.Concurrency

\* the invocation is a fresh one whose first scan returned an empty page
FirstScanEmpty ==
    /\ countCalls = 1
    /\ scanTokens = <<"">>
    /\ Len(ScanWorkflow("", req.Query).Executions) = 0
    /\ \/ dpc = "return"
       \/ dpc = "done" /\ retErr = NoErr

\* C14: when the first scan of a fresh run returns an empty page, the
\* activity returns successfully, with current_page = 0, success_count = 0,
\* error_count = 0 and total_estimate the result of count, and it has issued
\* no mutation RPC, no describe RPC, no limiter acquisition and no heartbeat.
C14_EmptyResult ==
    /\ [](FirstScanEmpty
            => /\ (IF dpc = "done" THEN result ELSE hbd)
                    = [ZeroHBD EXCEPT !.TotalEstimate = CountWorkflow(req.Query)]
               /\ \A e \in Executions : mutations[e] = 0
               /\ acquired = 0
               /\ lastHb = NoDetails
               /\ reportedOk + reportedErr = 0
               /\ taskCh = <<>>
               /\ \A w \in Workers : ~Holding(w) /\ walkDescribed[w] = <<>>)
    /\ [][(dpc = "return" /\ dpc' # dpc)
            => (dpc' = "done" /\ retErr' = NoErr /\ result' = hbd)]_vars

\* the run on a query that matches nothing has returned successfully
C14_Witness ==
    /\ req.Query = EmptyQuery
    /\ FirstScanEmpty
    /\ dpc = "done"
    /\ result.TotalEstimate = 0

\* C15: terminal failures of tasks are counted, not propagated.  Unless a
\* scan or count fails or ctx is cancelled, the activity returns a nil error
\* whatever tasks failed terminally, and the state it returns has error_count
\* equal to the number of tasks reported with an error and success_count
\* equal to the number of tasks reported with success.
C15_FailuresCounted ==
    /\ []((dpc = "done" /\ retErr = NoErr /\ ~cancelled)
            => /\ result.ErrorCount = reportedErr
               /\ result.SuccessCount = reportedOk)
    /\ [][(dpc \in {"send", "wait", "advance", "return"} /\ dpc' = "done"
              /\ ~cancelled)
            => retErr' = NoErr]_vars

\* a run without cancellation has returned nil with one task failed and two
\* succeeded
C15_Witness ==
    /\ dpc = "done"
    /\ retErr = NoErr
    /\ ~cancelled
    /\ reportedErr = 1
    /\ result.ErrorCount = 1
    /\ result.SuccessCount = 2

\* the requests the specification says are rejected
Rejected(p) ==
    \/ p.Reason = ""
    \/ p.DomainName = ""
    \/ p.Query = ""
    \/ p.BatchType \notin {BatchTypeTerminate, BatchTypeCancel, BatchTypeSignal}
    \/ p.BatchType = BatchTypeSignal /\ p.SignalName = ""

\* C16: validateParams returns an error exactly when reason, domain or
\* query is empty, or op is none of Terminate, Cancel, Signal, or op is
\* Signal with an empty signal_name, on the request as given and as
\* normalized by setDefaultParams; BatchWorkflow executes the activity for
\* the accepted requests only and returns the error for the others.
C16_Validation ==
    /\ (validateParams(req) # NoErr) <=> Rejected(req)
    /\ (validateParams(setDefaultParams(req)) # NoErr) <=> Rejected(req)
    /\ wfpc = "activity" => (~Rejected(req) /\ dpc = "entry" /\ wfErr = NoErr)
    /\ wfpc = "rejected"
         => /\ Rejected(req)
            /\ wfErr = validateParams(req)
            /\ wfErr # NoErr
            /\ dpc = "none"
            /\ invocation = 0

\* a Signal request without a signal name, all else given, was rejected
\* with the error about the signal name
C16_RejectedWitness ==
    /\ wfpc = "rejected"
    /\ req.BatchType = BatchTypeSignal
    /\ req.SignalName = ""
    /\ req.Reason # "" /\ req.DomainName # "" /\ req.Query # ""
    /\ wfErr = "must provide signal name"

\* C17: completion.  Without cancellation and under fair scheduling, the
\* activity of every accepted request, one whose concurrency was defaulted
\* included, eventually returns, and every wait of the dispatcher for the
\* outcomes of a page eventually ends with the page complete.
C17_Completion ==
    /\ (wfpc = "activity") ~> (dpc = "done")
    /\ (dpc = "wait") ~> (dpc = "advance")

\* the page a task belongs to: the number of pages drained before it was sent
PageOf(t) == t.hbd.CurrentPage

\* C18: page barrier.  Within one invocation the tasks in progress or
\* waiting, and with them every mutation RPC in flight (for a target, a
\* child or a retry), belong to one page, the page the dispatcher is sending
\* or waiting for; the dispatcher does not advance, scan or return success
\* while a task is in progress, so no mutation of page N + 1 begins before
\* every mutation of page N has completed.
C18_PageBarrier ==
    \A w \in Workers :
        Holding(w)
        => /\ \A v \in Workers : Holding(v) => PageOf(task[v]) = PageOf(task[w])
           /\ \A i \in 1..Len(taskCh) : PageOf(taskCh[i]) = PageOf(task[w])
           /\ dpc \in Running
                => /\ dpc \in {"send", "wait"}
                   /\ hbd.CurrentPage = PageOf(task[w])
                   /\ task[w].execution \in Range(resp.Executions)

\* a mutation for a target of the second page is in flight, the targets of
\* the first page having been mutated
C18_Witness ==
    /\ \E w \in Workers : wpc[w] = "mutate" /\ PageOf(task[w]) = 1
    /\ mutations["w1"] > 0
    /\ mutations["w2"] > 0
    /\ dpc = "wait"

\* the dispatcher is inside its loop or about to return hbd
InLoop == {"scan", "send", "wait", "advance", "return"}

\* C19: page-boundary heartbeats.  The dispatcher records a heartbeat
\* exactly when it passes a page: after all len(page) outcomes were
\* received, carrying hbd with current_page incremented by 1, page_token the
\* scan's next_page_token and the counters increased by the page's success
\* and error outcomes; hbd changes at no other point of the loop, and in a
\* fresh run the current_page of the heartbeat is the number of scans made,
\* each of whose pages was drained before it.
C19_PageHeartbeat ==
    [][/\ (dpc = "advance" /\ dpc' # dpc)
            => /\ succCount + errCount = Len(resp.Executions)
               /\ hbd' = [hbd EXCEPT !.CurrentPage = @ + 1,
                                     !.PageToken = resp.NextPageToken,
                                     !.SuccessCount = @ + succCount,
                                     !.ErrorCount = @ + errCount]
               /\ lastHb' = Details(hbd')
               /\ startOver => hbd'.CurrentPage = Len(scanTokens)
               /\ Range(resp.Executions) \subseteq drainedNow'
       /\ (dpc \in InLoop /\ dpc' \in InLoop /\ dpc # "advance")
            => hbd' = hbd
       /\ lastHb' # lastHb
            => \/ dpc = "advance" /\ dpc' # dpc
               \/ \E w \in Workers :
                     wpc[w] = "describe" /\ lastHb' = Details(task[w].hbd)]_vars

\* a fresh run has drained its two pages: the last heartbeat is the one of
\* the second page boundary
C19_Witness ==
    /\ startOver
    /\ dpc = "return"
    /\ scanTokens = <<"", "T1">>
    /\ lastHb = Details(hbd)
    /\ hbd.CurrentPage = 2
    /\ hbd.PageToken = ""
    /\ hbd.SuccessCount + hbd.ErrorCount = 3

\* the number of mutation RPCs issued for the executions of S
RECURSIVE MutationCount(_)
MutationCount(S) ==
    IF S = {} THEN 0
    ELSE LET e == CHOOSE x \in S : TRUE
         IN mutations[e] + MutationCount(S \ {e})

\* C20: the limiter gates the mutation RPCs and nothing else.  A task
\* processor issues a mutation RPC, for a target or a child, on a first
\* attempt or a retry, only as the step that follows a token granted to it:
\* it reaches procFn only from a successful limiter.Wait, and every mutation
\* is issued from there; so the mutations issued never exceed the tokens
\* granted, and no step of scan, count, describe, report or of the
\* dispatcher acquires a token.
C20_LimiterGatesMutations ==
    /\ [](MutationCount(Executions) + Cardinality(InFlight) = acquired)
    /\ [][
           /\ \A w \in Workers :
                /\ (wpc'[w] = "mutate" /\ wpc[w] # "mutate")
                     => /\ wpc[w] = "acquire"
                        /\ ~cancelled
                        /\ acquired' = acquired + 1
                /\ (wpc[w] = "mutate" /\ wpc'[w] # "mutate")
                     => /\ mutations' = [mutations EXCEPT ![wf[w]] = @ + 1]
                        /\ wf[w] = Head(wfs[w])
                        /\ acquired' = acquired
           /\ mutations' # mutations
                => \E w \in Workers : wpc[w] = "mutate" /\ wpc'[w] # "mutate"
           /\ acquired' # acquired
                => /\ dpc' = dpc
                   /\ countCalls' = countCalls
                   /\ scanTokens' = scanTokens
                   /\ \E w \in Workers : wpc[w] = "acquire" /\ wpc'[w] = "mutate"
       ]_vars

\* a retry of the target and the mutation of its child each took a token:
\* three tokens for three mutations
C20_Witness ==
    /\ mutations["w1"] = 2
    /\ mutations["c1"] = 1
    /\ acquired = 3
    /\ InFlight = {}

\* the calls of processor w's current walk that answered EntityNotExists
GoneAt(w, call) ==
    {walkGone[w][i][2] : i \in {k \in 1..Len(walkGone[w]) : walkGone[w][k][1] = call}}

\* C21: EntityNotExists is never a task failure.  It is never the error of
\* a walk nor an outcome on the response channel.  A node whose mutation
\* answered EntityNotExists counts as mutated and the walk goes on to
\* describe it; a node whose describe answered EntityNotExists gets none of
\* its children enqueued, and the walk goes on with the rest of the queue,
\* ending in success only with the queue empty; so a walk reports an error
\* only when a call answered another error.
C21_NotExistsIsSuccess ==
    /\ \A i \in 1..Len(respCh) : respCh[i] # EntityNotExistsError
    /\ \A w \in Workers :
         /\ werr[w] # EntityNotExistsError
         /\ \A e \in GoneAt(w, "mutate") :
              /\ e \in Range(walkMutated[w])
              /\ \/ e \in Range(walkDescribed[w]) \cup GoneAt(w, "describe")
                 \/ wpc[w] = "describe" /\ wf[w] = e
                 \/ /\ wpc[w] = "report"
                    /\ werr[w] \in {ErrTransient, CtxErr}
                    /\ walkMutated[w][Len(walkMutated[w])] = e
         /\ \A e \in GoneAt(w, "describe") :
              /\ e \in Range(walkMutated[w])
              /\ Range(PendingChildren(e))
                    \cap (Range(walkMutated[w]) \cup Range(wfs[w])) = {}
         /\ Succeeded(w) => wfs[w] = <<>>
         /\ (wpc[w] = "report" /\ werr[w] # NoErr)
              => werr[w] \in ErrMessages \cup {CtxErr}

\* a walk whose mutation and whose describe both answered EntityNotExists
\* ends in success, the child of its target not visited
C21_Witness ==
    \E w \in Workers :
        /\ Succeeded(w)
        /\ AppliesToChildren(params)
        /\ walkGone[w] = << <<"mutate", "w1">>, <<"describe", "w1">> >>
        /\ walkMutated[w] = <<"w1">>

\* C22: errors of the dispatcher's own calls propagate.  When count, on a
\* fresh start, or a scan answers an error, BatchActivity returns in that
\* step, with that error and the empty state, sending no task and recording
\* no heartbeat; when it is count that fails, no task processor was started
\* and no scan was made.
C22_DispatcherErrorsPropagate ==
    [][/\ (dpc \in {"entry", "scan"} /\ dpc' = "done")
            => /\ retErr' \in {ErrTransient, CtxErr}
               /\ retErr' = CtxErr => cancelled
               /\ faults' = faults + FaultOf(retErr')
               /\ result' = ZeroHBD
               /\ lastHb' = lastHb
               /\ taskCh' = taskCh
               /\ respCh' = respCh
               /\ wpc' = wpc
       /\ (dpc = "entry" /\ dpc' = "done")
            => /\ countCalls' = 1
               /\ scanTokens' = <<>>
               /\ \A w \in Workers : wpc'[w] = "none"
       /\ (dpc = "scan" /\ dpc' = "done")
            => scanTokens' = Append(scanTokens, hbd.PageToken)
       /\ (dpc \in {"entry", "scan"} /\ faults' = faults + 1)
            => (dpc' = "done" /\ retErr' = ErrTransient)]_vars

\* the scan of the second page failed: the activity has returned the error
\* and the empty state, the heartbeat of the first page being the last one
C22_Witness ==
    /\ dpc = "done"
    /\ retErr = ErrTransient
    /\ result = ZeroHBD
    /\ scanTokens = <<"", "T1">>
    /\ HasHeartbeatDetails(lastHb)
    /\ lastHb[1].CurrentPage = 1
    /\ lastHb[1].SuccessCount + lastHb[1].ErrorCount = 2

\* the describe calls of the current walk of processor w, answered or gone
DescribeCalls(w) ==
    Len(walkDescribed[w])
        + Cardinality({i \in 1..Len(walkGone[w]) : walkGone[w][i][1] = "describe"})

\* the executions of S and all their pending children, children's
\* children and so on
RECURSIVE Descendants(_)
Descendants(S) ==
    LET next == S \cup UNION {Range(PendingChildren(e)) : e \in S}
    IN IF next = S THEN S ELSE Descendants(next)

\* the sequence has no element twice
NoDuplicates(seq) ==
    \A i, j \in 1..Len(seq) : seq[i] = seq[j] => i = j

\* C23: the child walk.  A task that reports success has mutated its root
\* first, then, when the operation applies to children (Terminate with the
\* flag defaulted), exactly the transitive closure of the pending children
\* that describe returned, every node once and every mutation followed by
\* one describe; when it does not apply to children, one mutation and one
\* describe.  A run that returned without any failure has performed one
\* mutation per target (and per descendant, with children), and
\* SuccessCount is the number of targets.
C23_ChildWalk ==
    /\ \A w \in Workers :
         Succeeded(w) =>
           /\ Len(walkMutated[w]) >= 1
           /\ walkMutated[w][1] = task[w].execution
           /\ NoDuplicates(walkMutated[w])
           /\ DescribeCalls(w) = Len(walkMutated[w])
           /\ Range(walkDescribed[w]) \cup GoneAt(w, "describe")
                 = Range(walkMutated[w])
           /\ IF AppliesToChildren(params)
              THEN /\ \A e \in Range(walkDescribed[w]) :
                        Range(PendingChildren(e)) \subseteq Range(walkMutated[w])
                   /\ \A e \in Range(walkMutated[w]) \ {task[w].execution} :
                        \E parent \in Range(walkDescribed[w]) :
                            e \in Range(PendingChildren(parent))
              ELSE walkMutated[w] = <<task[w].execution>>
    /\ (/\ dpc = "done" /\ retErr = NoErr /\ faults = 0
        /\ result.ErrorCount = 0 /\ params.Query # EmptyQuery)
         => /\ result.SuccessCount = Cardinality(Matching(params.Query))
            /\ \A e \in Executions :
                  mutations[e] =
                     IF e \in Matching(params.Query)
                           \/ /\ AppliesToChildren(params)
                              /\ e \in Descendants(Matching(params.Query))
                     THEN 1 ELSE 0

\* a Terminate task on w1 reports success after it has terminated and
\* described w1, its child c1 and c1's child c2, in that order
C23_Witness ==
    \E w \in Workers :
        /\ Succeeded(w)
        /\ params.BatchType = BatchTypeTerminate
        /\ walkMutated[w] = <<"w1", "c1", "c2">>
        /\ walkDescribed[w] = <<"w1", "c1", "c2">>

\* while a page is being sent or drained, every task in taskCh or held by
\* a processor, retries included, carries the dispatcher's hbd
SnapshotsCurrent ==
    dpc \in {"send", "wait"}
        => /\ \A i \in 1..Len(taskCh) : taskCh[i].hbd = hbd
           /\ \A w \in Workers : Holding(w) => task[w].hbd = hbd

\* a step of a started task processor
ProcessorStep(w) == wpc[w] # "none" /\ wpc'[w] # wpc[w]

\* what C24 says of hbd and of the snapshots, the heartbeat of the child
\* walk left aside: no step of a processor changes hbd or the snapshot of
\* the task it holds, a task put back keeps its snapshot, the dispatcher
\* changes hbd only with nothing in flight and records it when it does
HeartbeatOwnership ==
    /\ \A w \in Workers :
         ProcessorStep(w)
            => /\ hbd' = hbd
               /\ (Holding(w) /\ wpc'[w] # "idle") => task'[w] = task[w]
               /\ (Holding(w) /\ Len(taskCh') > Len(taskCh))
                    => taskCh'[Len(taskCh')].hbd = task[w].hbd
               /\ lastHb' # lastHb
                    => (wpc[w] = "describe" /\ lastHb' = Details(task[w].hbd))
    /\ (dpc \in InLoop /\ dpc' \in InLoop /\ hbd' # hbd)
         => /\ taskCh = <<>> /\ respCh = <<>>
            /\ \A w \in Workers : ~Holding(w)
            /\ lastHb' = Details(hbd')

\* C24 as stated: hbd is changed by the dispatcher only, between pages, and
\* recorded after every page advance; a processor's heartbeat carries the
\* snapshot of its task, which is the dispatcher's hbd of the page in
\* progress, also after retries; and every iteration of the child walk
\* that does not return an error records a heartbeat.
C24_HeartbeatEveryIteration ==
    /\ []SnapshotsCurrent
    /\ [][/\ HeartbeatOwnership
          /\ \A w \in Workers :
               (wpc[w] = "describe" /\ wpc'[w] # wpc[w] /\ werr'[w] = NoErr)
                  => lastHb' = Details(task[w].hbd)]_vars

\* C24, amended: as above, but the child walk records its heartbeat in
\* the iterations whose describe answered without error, and in no other:
\* an iteration whose describe answered EntityNotExists goes on to the
\* next node, or ends the walk, without a heartbeat.
C24_HeartbeatAfterDescribe ==
    /\ []SnapshotsCurrent
    /\ [][/\ HeartbeatOwnership
          /\ \A w \in Workers :
               /\ walkDescribed'[w] = Append(walkDescribed[w], wf[w])
                    => lastHb' = Details(task[w].hbd)
               /\ (ProcessorStep(w) /\ walkDescribed'[w] = walkDescribed[w]
                     /\ wpc'[w] # "idle")
                    => lastHb' = lastHb]_vars

\* the retry of the task of w1, on the first page of a fresh run, has
\* described w1 and recorded the task's snapshot, then found c1 gone at its
\* describe and ended the walk: the snapshot is still the last heartbeat
C24_Witness ==
    \E w \in Workers :
        /\ Succeeded(w)
        /\ dpc = "wait"
        /\ task[w].attempts = 1
        /\ walkDescribed[w] = <<"w1">>
        /\ walkGone[w] = << <<"describe", "c1">> >>
        /\ lastHb = Details(task[w].hbd)
        /\ task[w].hbd = hbd
        /\ hbd.CurrentPage = 0

\* the total_estimate of the invocation: the restored one, or the answer
\* of count at a fresh start
Estimate ==
    IF HasHeartbeatDetails(restored)
    THEN restored[1].TotalEstimate
    ELSE CountWorkflow(params.Query)

\* C25: total_estimate is written once, at a fresh start.  An invocation
\* calls count at most once, and only when it restored nothing; from then
\* on, and from the start of a resumed invocation, hbd, every heartbeat
\* recorded and the state returned carry the same total_estimate, and no
\* step of the loop writes it.
C25_TotalEstimateWrittenOnce ==
    /\ [](/\ countCalls <= 1
          /\ countCalls = 1 => ~HasHeartbeatDetails(restored)
          /\ dpc \in InLoop
               => /\ hbd.TotalEstimate = Estimate
                  /\ countCalls = (IF startOver THEN 1 ELSE 0)
                  /\ startOver = ~HasHeartbeatDetails(restored)
          /\ (dpc = "done" /\ retErr = NoErr)
               => result.TotalEstimate = Estimate)
    /\ [][/\ (dpc \in InLoop /\ dpc' \in InLoop)
               => /\ hbd'.TotalEstimate = hbd.TotalEstimate
                  /\ countCalls' = countCalls
          /\ (dpc \in InLoop /\ lastHb' # lastHb)
               => lastHb'[1].TotalEstimate = Estimate]_vars

\* a resumed invocation, which made no count call, has passed the second
\* page: its heartbeat carries the total_estimate it restored
C25_Witness ==
    /\ invocation = 2
    /\ dpc = "return"
    /\ ~startOver
    /\ countCalls = 0
    /\ HasHeartbeatDetails(restored)
    /\ restored[1].CurrentPage = 1
    /\ lastHb # restored
    /\ lastHb[1].CurrentPage = 2
    /\ lastHb[1].TotalEstimate = restored[1].TotalEstimate
    /\ lastHb[1].TotalEstimate = Cardinality(Roots)

\* C26: termination of the worker pool.  A task processor returns only
\* when ctx is cancelled, however long taskCh stays empty and also after
\* BatchActivity has returned; once ctx is cancelled, BatchActivity returns
\* and every task processor that was started returns: none stays blocked
\* on a send to taskCh or respCh.
C26_WorkerPoolTermination ==
    /\ [](\A w \in Workers : wpc[w] = "exited" => cancelled)
    /\ cancelled ~> (/\ dpc = "done"
                     /\ \A w \in Workers : wpc[w] \in {"none", "exited"})

\* ctx was cancelled while a page was drained: BatchActivity has returned
\* the context error and both task processors have returned, one of them
\* after a mutation, a task being left in taskCh
C26_Witness ==
    /\ cancelled
    /\ dpc = "done"
    /\ retErr = CtxErr
    /\ \A w \in Workers : wpc[w] = "exited"
    /\ \E e \in Roots : mutations[e] >= 1
    /\ taskCh # <<>>

\* C27: channel slack.  taskCh and respCh, of capacity pageSize, never hold
\* more than pageSize elements, and there is room whenever somebody is
\* about to send: in taskCh when the dispatcher sends a task of the page
\* and when a task processor puts a task back, in respCh when a task
\* processor reports an outcome.
C27_ChannelSlack ==
    /\ Len(taskCh) <= pageSize
    /\ Len(respCh) <= pageSize
    /\ Len(resp.Executions) <= pageSize
    /\ dpc = "send" => Len(taskCh) < pageSize
    /\ \A w \in Workers :
         wpc[w] = "report"
            => /\ Len(taskCh) < pageSize
               /\ Len(respCh) < pageSize

\* taskCh holds one task of the page and a task processor is about to put
\* back the other for a retry: it finds room
C27_Witness ==
    \E w \in Workers :
        /\ wpc[w] = "report"
        /\ werr[w] # NoErr
        /\ ~IsTerminal(params, task[w], werr[w])
        /\ Len(taskCh) = pageSize - 1
        /\ respCh = <<>>
        /\ dpc = "wait"

\* outcomes of the page in progress the dispatcher has received
Received == IF dpc \in {"wait", "advance"} THEN succCount + errCount ELSE 0

\* tasks of the page in progress, wherever they are: in taskCh, held by a
\* task processor, as an outcome in respCh, or as an outcome received
InPlay ==
    Len(taskCh) + Cardinality({w \in Workers : Holding(w)}) + Len(respCh)
        + Received

\* C28: task conservation.  While ctx is live, the tasks in taskCh, those
\* held by task processors, the outcomes in respCh and the outcomes the
\* dispatcher received add up to the tasks sent: to len(page) from the
\* last send of the page until the page is passed.  Cancelled or not, they
\* never add up to more, and the dispatcher never receives more than
\* len(page) outcomes for a page.
C28_TaskConservation ==
    /\ (~cancelled /\ dpc = "send") => InPlay = sendIdx - 1
    /\ (~cancelled /\ dpc \in {"wait", "advance"})
         => InPlay = Len(resp.Executions)
    /\ (~cancelled /\ dpc \in {"scan", "return"}) => InPlay = 0
    /\ dpc \in {"send", "wait", "advance"} => InPlay <= Len(resp.Executions)
    /\ Received <= Len(resp.Executions)

\* of a page of two, one outcome was received and the other task, put back
\* once, is held by a task processor again
C28_Witness ==
    \E w \in Workers :
        /\ ~cancelled
        /\ dpc = "wait"
        /\ Len(resp.Executions) = 2
        /\ succCount = 1
        /\ wpc[w] = "mutate"
        /\ task[w].attempts = 1
        /\ taskCh = <<>> /\ respCh = <<>>

\* C29: quiescence at page boundaries.  Whenever the dispatcher is about
\* to call ScanWorkflow, taskCh and respCh are empty and no task processor
\* holds a task; and whatever task is in taskCh or held while a page is
\* sent or drained is a task of that page, so that every outcome counted
\* for a page is one of its own.
C29_QuiescentAtScan ==
    /\ dpc = "scan"
         => /\ taskCh = <<>>
            /\ respCh = <<>>
            /\ \A w \in Workers : ~Holding(w) /\ task[w] = NoTask
    /\ dpc \in {"send", "wait"}
         => /\ \A i \in 1..Len(taskCh) :
                 taskCh[i].execution \in Range(resp.Executions)
            /\ \A w \in Workers :
                 Holding(w) => task[w].execution \in Range(resp.Executions)

\* the first page was drained by two task processors and passed: the
\* dispatcher is about to scan the second page, and all is quiet
C29_Witness ==
    /\ dpc = "scan"
    /\ scanTokens = <<"">>
    /\ hbd.CurrentPage = 1
    /\ hbd.SuccessCount + hbd.ErrorCount = pageSize
    /\ reportedOk + reportedErr = pageSize
    /\ \A w \in Workers : wpc[w] = "idle"

\* the cursor after the first n pages of the query: the page token the
\* scan of page n returned
RECURSIVE CursorAfter(_, _)
CursorAfter(n, query) ==
    IF n = 0 THEN ""
    ELSE ScanWorkflow(CursorAfter(n - 1, query), query).NextPageToken

\* the executions of the first n pages of the query
RECURSIVE PagesBefore(_, _)
PagesBefore(n, query) ==
    IF n = 0 THEN {}
    ELSE PagesBefore(n - 1, query)
            \cup Range(ScanWorkflow(CursorAfter(n - 1, query), query).Executions)

\* C30: heartbeat monotonicity.  In the heartbeats an invocation records,
\* the dispatcher's and the task processors' together, current_page,
\* success_count and error_count never decrease; the heartbeat of a child
\* walk carries the cursor the page in progress was scanned with; and the
\* last heartbeat recorded always names a cursor whose preceding pages
\* were drained, with one outcome counted for each of their targets.
C30_HeartbeatMonotonic ==
    /\ [](HasHeartbeatDetails(lastHb)
            => /\ lastHb[1].PageToken
                    = CursorAfter(lastHb[1].CurrentPage, params.Query)
               /\ PagesBefore(lastHb[1].CurrentPage, params.Query)
                    = drainedNow
               /\ lastHb[1].SuccessCount + lastHb[1].ErrorCount
                    = Cardinality(drainedNow))
    /\ [][/\ (HasHeartbeatDetails(lastHb) /\ lastHb' # lastHb)
               => /\ lastHb'[1].CurrentPage >= lastHb[1].CurrentPage
                  /\ lastHb'[1].SuccessCount >= lastHb[1].SuccessCount
                  /\ lastHb'[1].ErrorCount >= lastHb[1].ErrorCount
          /\ \A w \in Workers :
               walkDescribed'[w] # walkDescribed[w]
                  => /\ lastHb'[1].PageToken = scanTokens[Len(scanTokens)]
                     /\ lastHb'[1].CurrentPage = Len(scanTokens) - 1
                     /\ dpc \in {"send", "wait"}
                          => task[w].execution \in Range(resp.Executions)
                     /\ dpc \notin {"send", "wait"}
                          => (cancelled /\ dpc = "done")]_vars

\* while the second page is drained, the walk of its task has recorded a
\* heartbeat: it carries the cursor T1 the page was scanned with and the
\* counts of the first page
C30_Witness ==
    \E w \in Workers :
        /\ Succeeded(w)
        /\ dpc = "wait"
        /\ scanTokens = <<"", "T1">>
        /\ walkDescribed[w] = <<"w3">>
        /\ lastHb = Details(task[w].hbd)
        /\ lastHb[1].PageToken = "T1"
        /\ lastHb[1].CurrentPage = 1
        /\ lastHb[1].SuccessCount + lastHb[1].ErrorCount = 2

\* the invocation restored the heartbeat recorded after the last page
FromFinal ==
    /\ HasHeartbeatDetails(restored)
    /\ restored[1].PageToken = ""
    /\ restored[1].CurrentPage > 0

\* pages the invocation has passed since it restored its state
PagesPassed == hbd.CurrentPage - restored[1].CurrentPage

\* C31: resume from a final heartbeat.  An invocation that restored the
\* heartbeat recorded after the last page (empty page_token, current_page
\* greater than 0) passes the empty token to its first scan, so it scans
\* the query's pages from the first one again, and it adds the outcomes of
\* the pages it passes to the restored success_count and error_count.
C31_ResumeFromFinal ==
    FromFinal
    => /\ \A k \in 1..Len(scanTokens) :
            scanTokens[k] = CursorAfter(k - 1, params.Query)
       /\ (dpc \in {"send", "wait", "advance"})
            => resp = ScanWorkflow(scanTokens[Len(scanTokens)], params.Query)
       /\ dpc \in InLoop
            => /\ PagesPassed >= 0
               /\ drainedNow = PagesBefore(PagesPassed, params.Query)
               /\ hbd.SuccessCount + hbd.ErrorCount
                    = restored[1].SuccessCount + restored[1].ErrorCount
                        + Cardinality(drainedNow)
               /\ hbd.PageToken = CursorAfter(PagesPassed, params.Query)
       /\ (dpc = "done" /\ retErr = NoErr)
            => /\ drainedNow = Matching(params.Query)
               /\ result.SuccessCount + result.ErrorCount
                    = restored[1].SuccessCount + restored[1].ErrorCount
                        + Cardinality(Matching(params.Query))

\* the heartbeat after the second, last page was recorded and the worker
\* process lost; the second invocation restored it, scanned both pages
\* again, mutated w1 once more and counts six outcomes for three targets
C31_Witness ==
    /\ FromFinal
    /\ invocation = 2
    /\ restored[1].CurrentPage = 2
    /\ restored[1].SuccessCount + restored[1].ErrorCount = 3
    /\ scanTokens = <<"", "T1">>
    /\ dpc = "return"
    /\ mutations["w1"] >= 1
    /\ hbd.CurrentPage = 4
    /\ hbd.SuccessCount + hbd.ErrorCount = 6

\* the pending children of the executions of seq, in the order of seq
RECURSIVE Enqueued(_)
Enqueued(seq) ==
    IF seq = <<>> THEN <<>>
    ELSE PendingChildren(Head(seq)) \o Enqueued(Tail(seq))

\* the executions the current walk of processor w has put in its queue, in
\* the order it did: the task's target, then the pending children of every
\* node whose describe answered
EnqueueOrder(w) ==
    <<task[w].execution>>
        \o (IF AppliesToChildren(params)
            THEN Enqueued(walkDescribed[w]) ELSE <<>>)

\* the queue of the walk behind the node the walk is at: when the mutation
\* of the head failed, the head is still in wfs
Rest(w) ==
    IF /\ wpc[w] = "report" /\ werr[w] # NoErr
       /\ wfs[w] # <<>> /\ walkMutated[w] # <<>>
       /\ Head(wfs[w]) = walkMutated[w][Len(walkMutated[w])]
    THEN Tail(wfs[w])
    ELSE wfs[w]

\* C32: order of the child walk.  Within one task the walk is breadth
\* first: the nodes mutated so far, followed by the nodes still in the
\* queue, are the nodes in the order they were enqueued, i.e. the root and
\* then the children of each described node in the order of the describes,
\* so a child is mutated only after its parent was mutated and described.
\* An error other than EntityNotExists ends the walk at once, the nodes
\* behind the failing one unmutated; the walk of a retry starts from the
\* root with nothing mutated; and no task is walked by two task processors
\* at a time.
C32_WalkOrder ==
    /\ \A w \in Workers :
         /\ Holding(w)
              => /\ EnqueueOrder(w) = walkMutated[w] \o Rest(w)
                 /\ NoDuplicates(EnqueueOrder(w))
                 /\ \A i \in 1..Len(walkDescribed[w]) :
                      \E j \in 1..Len(walkMutated[w]) :
                          walkMutated[w][j] = walkDescribed[w][i]
                 /\ wpc[w] \in {"mutate", "describe"}
                      => wf[w] = EnqueueOrder(w)[IF wpc[w] = "mutate"
                                                THEN Len(walkMutated[w]) + 1
                                                ELSE Len(walkMutated[w])]
         /\ werr[w] # NoErr
              => /\ wpc[w] = "report"
                 /\ werr[w] # EntityNotExistsError
                 /\ Range(Rest(w)) \cap Range(walkMutated[w]) = {}
         /\ (wpc[w] = "acquire" /\ walkMutated[w] = <<>>)
              => wfs[w] = <<task[w].execution>>
    /\ \A v, w \in Workers :
         (Holding(v) /\ Holding(w) /\ task[v].execution = task[w].execution)
            => v = w
    /\ \A w \in Workers : \A i \in 1..Len(taskCh) :
         Holding(w) => taskCh[i].execution # task[w].execution

\* the retry of the task of t1, whose children are c1 and c3 and whose
\* grandchild, under c1, is c2, has walked the tree from the root again:
\* t1, then both children, then the grandchild
C32_Witness ==
    \E w \in Workers :
        /\ Succeeded(w)
        /\ task[w].execution = TreeRoot
        /\ task[w].attempts = 1
        /\ mutations[TreeRoot] = 2
        /\ walkMutated[w] = <<"t1", "c1", "c3", "c2">>
        /\ walkDescribed[w] = <<"t1", "c1", "c3", "c2">>

\* C33: a task received after cancellation is dropped.  When a task leaves
\* taskCh while ctx is cancelled, the task processor that received it
\* returns in that step: no limiter token is taken, no mutation and no
\* describe call is made, the task is neither put back nor answered on
\* respCh, and the processor never acts again.  While ctx is live, the
\* processor that receives a task goes on to process it.
C33_DropAfterCancel ==
    [][
       /\ (cancelled /\ taskCh' # taskCh /\ Len(taskCh') < Len(taskCh))
            => /\ taskCh' = Tail(taskCh)
               /\ \E w \in Workers :
                    /\ wpc[w] = "idle"
                    /\ wpc' = [wpc EXCEPT ![w] = "exited"]
               /\ UNCHANGED <<task, wfs, wf, werr, respCh, acquired,
                              mutations, walkMutated, walkDescribed,
                              walkGone, reportedOk, reportedErr, lastHb,
                              faults, dispVars>>
       /\ (~cancelled /\ Len(taskCh') < Len(taskCh))
            => \E w \in Workers :
                  /\ wpc[w] = "idle" /\ wpc'[w] = "acquire"
                  /\ task'[w] = Head(taskCh)
       /\ \A w \in Workers :
            wpc[w] = "exited"
               => /\ wpc'[w] = "exited"
                  /\ task[w] = NoTask /\ task'[w] = NoTask
      ]_vars

\* ctx was cancelled while a page of two was drained: one outcome was
\* received, the other task was taken from taskCh by a task processor that
\* returned, and is nowhere any more, while the dispatcher still waits
C33_Witness ==
    /\ cancelled
    /\ dpc = "wait"
    /\ Len(resp.Executions) = 2
    /\ succCount + errCount = 1
    /\ taskCh = <<>> /\ respCh = <<>>
    /\ \A w \in Workers : ~Holding(w)
    /\ \E w \in Workers : wpc[w] = "exited"
    /\ acquired = 1

====
